---- MODULE Spec2Model ----
(***************************************************************************)
(* A model of libstd/sys/unix/process/process_unix.rs: Command::spawn with *)
(* its two strategies (posix_spawn and pipe + fork + do_exec), the error   *)
(* message the forked child sends over the CLOEXEC pipe, the PATH          *)
(* traversal of compute_possible_paths / do_exec, and the Process handle   *)
(* (kill, wait, try_wait).                                                 *)
(*                                                                         *)
(* Byte strings are sequences of one-character strings.  Option<T> is a    *)
(* sequence of length 0 (None) or 1 (Some).  The operating system is the   *)
(* environment: every syscall result is an input chosen with \E among the  *)
(* results the call can give in the current state of the child process.    *)
(***************************************************************************)
EXTENDS Integers, Sequences, FiniteSets, TLC

VARIABLES
    cmd,             \* the Command: program, envp, cwd, gid, uid, closures, stdio, saw_nul
    host,            \* the parent's environment: PATH, glibc version
    pc,              \* the parent's position in spawn
    possible_paths,  \* Option<Vec<CString>> computed by compute_possible_paths
    p,               \* the Process handle: [pid, status]
    bytes,           \* the parent's 8-byte read buffer
    result,          \* Option of what spawn gave its caller
    child,           \* the forked child before exec: its position in do_exec
    pipe,            \* the CLOEXEC pipe: buffer, open read ends, open write ends
    proc,            \* the OS process table entry of the child
    probe,           \* the fast-spawn capability of the host, once posix_spawn has asked
    ret,             \* what the last Process method returned to the caller
    hist             \* history: syscalls made so far

vars == <<cmd, host, pc, possible_paths, p, bytes, result, child, pipe, proc, probe, ret, hist>>

----------------------------------------------------------------------------
(* Bounds of the model *)

MaxPathLen == 3     \* longest PATH value, in bytes
MaxCalls == 4       \* Process method calls made by the caller
MaxEintr == 1       \* signal interruptions of one blocking syscall
MaxClosures == 2    \* pre-exec callbacks registered
MaxErrno == 12      \* the codec is also tried on -MaxErrno..MaxErrno

----------------------------------------------------------------------------
(* Option, io::Result, io::Error *)

None == <<>>
Some(x) == <<x>>
IsSome(o) == o # <<>>
Unwrap(o) == o[1]

ENOENT == 2
EINVAL == 22
EACCES == 13
ETIMEDOUT == 110
ENOEXEC == 8
ESRCH == 3
ECHILD == 10
EAGAIN == 11
EIO == 5
EBADF == 9
EPERM == 1
SIGKILL == 9

OsError(code) == [repr |-> "Os", code |-> code]
CustomError(kind, msg) == [repr |-> "Custom", kind |-> kind, msg |-> msg]
Ok(v) == [ok |-> TRUE, val |-> v]
Err(e) == [ok |-> FALSE, err |-> e]

\* io::Error::raw_os_error
raw_os_error(e) == IF e.repr = "Os" THEN Some(e.code) ELSE None

\* io::Error::kind, through sys::decode_error_kind for an OS error
ErrorKind(e) ==
    IF e.repr = "Custom" THEN e.kind
    ELSE IF e.code = ENOENT THEN "NotFound"
    ELSE IF e.code = EACCES \/ e.code = EPERM THEN "PermissionDenied"
    ELSE IF e.code = ETIMEDOUT THEN "TimedOut"
    ELSE IF e.code = EINVAL THEN "InvalidInput"
    ELSE "Other"

\* ExitStatus::new wraps the raw wait status
ExitStatus(status) == [raw |-> status]

----------------------------------------------------------------------------
(* 32-bit words.  TLC's integers are 32-bit signed, so a u32 is kept as    *)
(* two 16-bit limbs; an i32 is an Int in -2^31 .. 2^31-1.                  *)

Limb == 65536

\* `x | y` on two limbs
BitOr[x \in 0..(Limb - 1), y \in 0..(Limb - 1)] ==
    IF x = 0 THEN y
    ELSE IF y = 0 THEN x
    ELSE (IF x % 2 = 1 \/ y % 2 = 1 THEN 1 ELSE 0) + 2 * BitOr[x \div 2, y \div 2]

\* `x as u32` for an i32 (two's complement reinterpretation) or a u8
AsU32(x) == [hi |-> (x \div Limb) % Limb, lo |-> x % Limb]

\* `w >> n` on a u32, 0 <= n < 32
Shr(w, n) ==
    IF n >= 16 THEN [hi |-> 0, lo |-> w.hi \div (2 ^ (n - 16))]
    ELSE [hi |-> w.hi \div (2 ^ n),
          lo |-> (w.lo \div (2 ^ n)) + (w.hi % (2 ^ n)) * (2 ^ (16 - n))]

\* `w << n` on a u32, 0 <= n < 32: the bits shifted past bit 31 are lost
Shl(w, n) ==
    IF n >= 16 THEN [hi |-> (w.lo * (2 ^ (n - 16))) % Limb, lo |-> 0]
    ELSE [hi |-> ((w.hi * (2 ^ n)) % Limb) + (w.lo \div (2 ^ (16 - n))),
          lo |-> (w.lo * (2 ^ n)) % Limb]

\* `a | b` on u32
Or32(a, b) == [hi |-> BitOr[a.hi, b.hi], lo |-> BitOr[a.lo, b.lo]]

\* `w as u8`
AsU8(w) == w.lo % 256

\* `w as i32`
AsI32(w) == IF w.hi >= 32768 THEN (w.hi - Limb) * Limb + w.lo ELSE w.hi * Limb + w.lo

\* b"NOEX"
CLOEXEC_MSG_FOOTER == <<78, 79, 69, 88>>

\* a message with the bytes of the code in little-endian order
EncodeMsgShuffled(err) ==
    LET errno == AsU32(IF IsSome(raw_os_error(err)) THEN Unwrap(raw_os_error(err)) ELSE EINVAL)
    IN  << AsU8(Shr(errno, 0)), AsU8(Shr(errno, 8)), AsU8(Shr(errno, 16)), AsU8(Shr(errno, 24)),
           CLOEXEC_MSG_FOOTER[1], CLOEXEC_MSG_FOOTER[2],
           CLOEXEC_MSG_FOOTER[3], CLOEXEC_MSG_FOOTER[4] >>

\* a message that carries 0 for an error without an OS code
EncodeMsgZeroForCustom(err) ==
    LET errno == AsU32(IF IsSome(raw_os_error(err)) THEN Unwrap(raw_os_error(err)) ELSE 0)
    IN  << AsU8(Shr(errno, 24)), AsU8(Shr(errno, 16)), AsU8(Shr(errno, 8)), AsU8(Shr(errno, 0)),
           CLOEXEC_MSG_FOOTER[1], CLOEXEC_MSG_FOOTER[2],
           CLOEXEC_MSG_FOOTER[3], CLOEXEC_MSG_FOOTER[4] >>

\* lines 53-61: the 8 bytes the child writes for the error do_exec returned
EncodeMsg(err) ==
    LET errno == AsU32(IF IsSome(raw_os_error(err)) THEN Unwrap(raw_os_error(err)) ELSE EINVAL)
    IN  << AsU8(Shr(errno, 24)), AsU8(Shr(errno, 16)), AsU8(Shr(errno, 8)), AsU8(Shr(errno, 0)),
           CLOEXEC_MSG_FOOTER[1], CLOEXEC_MSG_FOOTER[2],
           CLOEXEC_MSG_FOOTER[3], CLOEXEC_MSG_FOOTER[4] >>

\* a combine that reads the bytes in little-endian order
combine_le(arr) ==
    LET a == AsU32(arr[1])
        b == AsU32(arr[2])
        c == AsU32(arr[3])
        d == AsU32(arr[4])
    IN  AsI32(Or32(Or32(Or32(Shl(d, 24), Shl(c, 16)), Shl(b, 8)), Shl(a, 0)))

\* fn combine(arr: &[u8]) -> i32
combine(arr) ==
    LET a == AsU32(arr[1])
        b == AsU32(arr[2])
        c == AsU32(arr[3])
        d == AsU32(arr[4])
    IN  AsI32(Or32(Or32(Or32(Shl(a, 24), Shl(b, 16)), Shl(c, 8)), Shl(d, 0)))

----------------------------------------------------------------------------
(* Byte strings and compute_possible_paths *)

Contains(s, c) == \E i \in 1..Len(s) : s[i] = c
StartsWith(s, pre) == Len(s) >= Len(pre) /\ SubSeq(s, 1, Len(pre)) = pre
SetMin(S) == CHOOSE x \in S : \A y \in S : x <= y

\* slice::split: the subslices between the separators, empty ones included
RECURSIVE Split(_, _)
Split(s, sep) ==
    LET at == {i \in 1..Len(s) : s[i] = sep}
    IN  IF at = {} THEN <<s>>
        ELSE <<SubSeq(s, 1, SetMin(at) - 1)>> \o Split(SubSeq(s, SetMin(at) + 1, Len(s)), sep)

PATH_EQ == <<"P", "A", "T", "H", "=">>

\* envp.get_items().iter().find(|var| var.as_bytes().starts_with(b"PATH="))
FindPathVar(items) ==
    LET at == {i \in 1..Len(items) : StartsWith(items[i], PATH_EQ)}
    IN  IF at = {} THEN None ELSE Some(items[SetMin(at)])

\* a candidate list in which an empty segment stands for the current directory
BinaryPathsCwd(paths, program) ==
    LET segs == Split(paths, ":")
    IN  [i \in 1..Len(segs) |->
            (IF segs[i] = <<>> THEN <<".">> ELSE segs[i]) \o <<"/">> \o program]

\* the loop of lines 150-158: <segment>/<program> for each segment, in order
BinaryPaths(paths, program) ==
    LET segs == Split(paths, ":")
    IN  [i \in 1..Len(segs) |-> segs[i] \o <<"/">> \o program]

\* a resolver that falls back to the parent's PATH when the override has none
compute_possible_paths_fallback(program, maybe_envp, parent_path) ==
    IF Contains(program, "/") THEN None
    ELSE LET fromEnv == IF IsSome(maybe_envp) THEN FindPathVar(Unwrap(maybe_envp)) ELSE None
         IN  IF IsSome(fromEnv)
             THEN Some(BinaryPaths(SubSeq(Unwrap(fromEnv), 6, Len(Unwrap(fromEnv))), program))
             ELSE IF IsSome(parent_path) THEN Some(BinaryPaths(Unwrap(parent_path), program))
             ELSE None

\* a resolver that searches PATH for every program, with or without a separator
compute_possible_paths_always(program, maybe_envp, parent_path) ==
    IF IsSome(maybe_envp)
    THEN LET found == FindPathVar(Unwrap(maybe_envp))
         IN  IF IsSome(found)
             THEN Some(BinaryPaths(SubSeq(Unwrap(found), 6, Len(Unwrap(found))), program))
             ELSE None
    ELSE IF IsSome(parent_path)
         THEN Some(BinaryPaths(Unwrap(parent_path), program))
         ELSE None

\* fn compute_possible_paths(&self, maybe_envp) -> Option<Vec<CString>>
compute_possible_paths(program, maybe_envp, parent_path) ==
    IF Contains(program, "/") THEN None
    ELSE IF IsSome(maybe_envp)
         THEN LET found == FindPathVar(Unwrap(maybe_envp))
              IN  IF IsSome(found)
                  THEN Some(BinaryPaths(SubSeq(Unwrap(found), 6, Len(Unwrap(found))), program))
                  ELSE None
         ELSE IF IsSome(parent_path)
              THEN Some(BinaryPaths(Unwrap(parent_path), program))
              ELSE None

----------------------------------------------------------------------------
(* The operating system's view of the child, and the Process methods *)

NoProc == [state |-> "none", wstatus |-> 0, sigkill |-> FALSE]
Running == [state |-> "running", wstatus |-> 0, sigkill |-> FALSE]
Zombie(ws) == [state |-> "zombie", wstatus |-> ws, sigkill |-> FALSE]
Reaped(ws) == [state |-> "reaped", wstatus |-> ws, sigkill |-> FALSE]

\* raw wait statuses: exit(0), exit(1), killed by SIGKILL
WStatuses == {0, 256, SIGKILL}

KillExited == CustomError("InvalidInput", "invalid argument: can't kill an exited process")

\* a wait that asks the OS every time
WaitOutcomesNoCache(h, pr) ==
    IF pr.state = "zombie"
    THEN {[p |-> [h EXCEPT !.status = Some(ExitStatus(pr.wstatus))], proc |-> Reaped(pr.wstatus),
           val |-> Ok(ExitStatus(pr.wstatus)), waitpids |-> k + 1, reaps |-> 1] : k \in 0..MaxEintr}
    ELSE IF pr.state = "running" THEN {}
    ELSE {[p |-> h, proc |-> pr, val |-> Err(OsError(ECHILD)), waitpids |-> k + 1,
           reaps |-> 0] : k \in 0..MaxEintr}

\* Process::wait: what a call can give, as [p, proc, val, waitpids, reaps].  cvt_r
\* calls waitpid again after each EINTR (k of them); the call blocks (no outcome)
\* while the child runs.
WaitOutcomes(h, pr) ==
    IF IsSome(h.status)
    THEN {[p |-> h, proc |-> pr, val |-> Ok(Unwrap(h.status)), waitpids |-> 0, reaps |-> 0]}
    ELSE IF pr.state = "zombie"
    THEN {[p |-> [h EXCEPT !.status = Some(ExitStatus(pr.wstatus))], proc |-> Reaped(pr.wstatus),
           val |-> Ok(ExitStatus(pr.wstatus)), waitpids |-> k + 1, reaps |-> 1] : k \in 0..MaxEintr}
    ELSE IF pr.state = "running" THEN {}
    ELSE {[p |-> h, proc |-> pr, val |-> Err(OsError(ECHILD)), waitpids |-> k + 1,
           reaps |-> 0] : k \in 0..MaxEintr}

\* a try_wait that caches whatever waitpid(WNOHANG) stored, also when it returned 0
TryWaitOutcomesEager(h, pr) ==
    IF IsSome(h.status)
    THEN {[p |-> h, proc |-> pr, val |-> Ok(Some(Unwrap(h.status))), waitpids |-> 0, reaps |-> 0]}
    ELSE IF pr.state = "running"
    THEN {[p |-> [h EXCEPT !.status = Some(ExitStatus(0))], proc |-> pr,
           val |-> Ok(Some(ExitStatus(0))), waitpids |-> 1, reaps |-> 0]}
    ELSE IF pr.state = "zombie"
    THEN {[p |-> [h EXCEPT !.status = Some(ExitStatus(pr.wstatus))], proc |-> Reaped(pr.wstatus),
           val |-> Ok(Some(ExitStatus(pr.wstatus))), waitpids |-> 1, reaps |-> 1]}
    ELSE {[p |-> h, proc |-> pr, val |-> Err(OsError(ECHILD)), waitpids |-> 1, reaps |-> 0]}

\* Process::try_wait: waitpid(WNOHANG) returns 0 while the child runs
TryWaitOutcomes(h, pr) ==
    IF IsSome(h.status)
    THEN {[p |-> h, proc |-> pr, val |-> Ok(Some(Unwrap(h.status))), waitpids |-> 0, reaps |-> 0]}
    ELSE IF pr.state = "running"
    THEN {[p |-> h, proc |-> pr, val |-> Ok(None), waitpids |-> 1, reaps |-> 0]}
    ELSE IF pr.state = "zombie"
    THEN {[p |-> [h EXCEPT !.status = Some(ExitStatus(pr.wstatus))], proc |-> Reaped(pr.wstatus),
           val |-> Ok(Some(ExitStatus(pr.wstatus))), waitpids |-> 1, reaps |-> 1]}
    ELSE {[p |-> h, proc |-> pr, val |-> Err(OsError(ECHILD)), waitpids |-> 1, reaps |-> 0]}

\* libc::kill(pid, SIGKILL) as the OS answers it
KillSyscall(h, pr) ==
    IF pr.state = "running"
    THEN [proc |-> [pr EXCEPT !.sigkill = TRUE], val |-> Ok(<<>>), kills |-> <<h.pid>>]
    ELSE IF pr.state = "zombie"
    THEN [proc |-> pr, val |-> Ok(<<>>), kills |-> <<h.pid>>]
    ELSE [proc |-> pr, val |-> Err(OsError(ESRCH)), kills |-> <<h.pid>>]

\* a kill that signals the pid whatever the cached status
KillOutcomeUnchecked(h, pr) == KillSyscall(h, pr)

\* Process::kill, as [proc, val, kills]
KillOutcome(h, pr) ==
    IF IsSome(h.status)
    THEN [proc |-> pr, val |-> Err(KillExited), kills |-> <<>>]
    ELSE KillSyscall(h, pr)

\* the caller holds the handle once spawn has returned Ok((p, ours))
CallerHasHandle == pc = "done" /\ IsSome(result) /\ Unwrap(result).kind = "Ok"

SpawnFrame == UNCHANGED <<cmd, host, pc, possible_paths, bytes, result, child, pipe, probe>>

wait ==
    /\ CallerHasHandle
    /\ Len(hist.ops) < MaxCalls
    /\ \E o \in WaitOutcomes(p, proc) :
          /\ p' = o.p
          /\ proc' = o.proc
          /\ ret' = [op |-> "wait", val |-> o.val]
          /\ hist' = [hist EXCEPT !.ops = Append(@, "wait"), !.waitpids = @ + o.waitpids,
                                  !.reaps = @ + o.reaps]
    /\ SpawnFrame

try_wait ==
    /\ CallerHasHandle
    /\ Len(hist.ops) < MaxCalls
    /\ \E o \in TryWaitOutcomes(p, proc) :
          /\ p' = o.p
          /\ proc' = o.proc
          /\ ret' = [op |-> "try_wait", val |-> o.val]
          /\ hist' = [hist EXCEPT !.ops = Append(@, "try_wait"), !.waitpids = @ + o.waitpids,
                                  !.reaps = @ + o.reaps]
    /\ SpawnFrame

kill ==
    /\ CallerHasHandle
    /\ Len(hist.ops) < MaxCalls
    /\ LET o == KillOutcome(p, proc)
       IN  /\ proc' = o.proc
           /\ ret' = [op |-> "kill", val |-> o.val]
           /\ hist' = [hist EXCEPT !.ops = Append(@, "kill"), !.kills = @ \o o.kills]
    /\ UNCHANGED p
    /\ SpawnFrame

\* the program the child runs terminates by itself
ProgramExits ==
    /\ CallerHasHandle
    /\ proc.state = "running"
    /\ \E ws \in WStatuses \ {SIGKILL} : proc' = Zombie(ws)
    /\ UNCHANGED <<p, ret, hist>>
    /\ SpawnFrame

\* a pending SIGKILL terminates the child
SigkillDelivered ==
    /\ proc.state = "running"
    /\ proc.sigkill
    /\ proc' = Zombie(SIGKILL)
    /\ UNCHANGED <<p, ret, hist>>
    /\ SpawnFrame

\* the zombie is collected by someone else (SIGCHLD ignored, a wait on any child)
ReapedElsewhere ==
    /\ CallerHasHandle
    /\ proc.state = "zombie"
    /\ proc' = Reaped(proc.wstatus)
    /\ UNCHANGED <<p, ret, hist>>
    /\ SpawnFrame

----------------------------------------------------------------------------
(* Command::spawn, the parent's side *)

Streams == {"stdin", "stdout", "stderr"}

NulError == CustomError("InvalidInput", "nul byte found in provided data")

RetOk(h) == [kind |-> "Ok", p |-> h]
RetErr(e) == [kind |-> "Err", err |-> e]
Panic(msg) == [kind |-> "Panic", msg |-> msg]

NoHandle == [pid |-> 0, status |-> None]
NoChild == [pc |-> "none", idx |-> 1, pending |-> None, err |-> None, image |-> None]
NoPipe == [buf |-> <<>>, rd |-> {}, wr |-> {}]
NoHist == [parent |-> <<>>, child |-> <<>>, waitpids |-> 0, reaps |-> 0, kills |-> <<>>,
           ops |-> <<>>, spawnp |-> None, os_pid |-> None]
NoRet == [op |-> "none", val |-> Ok(<<>>)]

Logged(call) == [hist EXCEPT !.parent = Append(@, call)]
ChildLogged(call, arg, res) ==
    [hist EXCEPT !.child = Append(@, [call |-> call, arg |-> arg, failed |-> res])]

HandleFrame == UNCHANGED <<ret>>

\* a spawn that does not look at saw_nul
SpawnEntryUnchecked ==
    /\ pc = "spawn"
    /\ pc' = "setup_io"
    /\ UNCHANGED <<cmd, host, possible_paths, p, bytes, result, child, pipe, proc, probe, hist>>
    /\ HandleFrame

\* lines 31-36: capture_env, then the saw_nul check
SpawnEntry ==
    /\ pc = "spawn"
    /\ IF cmd.saw_nul
       THEN /\ result' = Some(RetErr(NulError))
            /\ pc' = "done"
       ELSE /\ pc' = "setup_io"
            /\ UNCHANGED result
    /\ UNCHANGED <<cmd, host, possible_paths, p, bytes, child, pipe, proc, probe, hist>>
    /\ HandleFrame

\* line 38: setup_io gives the child's descriptors (those of cmd.stdio), or fails
SetupIo ==
    /\ pc = "setup_io"
    /\ \/ /\ pc' = "posix_spawn"
          /\ UNCHANGED result
       \/ /\ result' = Some(RetErr(OsError(EAGAIN)))
          /\ pc' = "done"
    /\ hist' = Logged("setup_io")
    /\ UNCHANGED <<cmd, host, possible_paths, p, bytes, child, pipe, proc, probe>>
    /\ HandleFrame

\* (a, b) < (c, d) on tuples
TupleLess(v, w) == v[1] < w[1] \/ (v[1] = w[1] /\ v[2] < w[2])

\* the build target and what sys::os::glibc_version() returns on it
Hosts ==
    {[platform |-> "other", glibc |-> None], [platform |-> "macos", glibc |-> None]}
    \cup {[platform |-> "linux_gnu", glibc |-> v] :
             v \in {None, Some(<<2, 23>>), Some(<<2, 24>>), Some(<<1, 30>>), Some(<<3, 0>>)}}

\* an eligibility test that forgets the PATH-affecting environment override
NeedsForkIgnoringEnv(c) == c.cwd \/ c.gid \/ c.uid \/ c.closures # 0

\* lines 339-345: what keeps a Command off posix_spawn
NeedsFork(c) == c.cwd \/ c.gid \/ c.uid \/ c.env_saw_path \/ c.closures # 0

\* lines 321-327 and 347-357: the target has no usable posix_spawn
ProbeFails(h) ==
    \/ h.platform = "other"
    \/ /\ h.platform = "linux_gnu"
       /\ (IF IsSome(h.glibc) THEN TupleLess(Unwrap(h.glibc), <<2, 24>>) ELSE TRUE)

\* the pids the OS hands out
Pids == {1, 2}

\* what posix_spawnp can return: 0, or the error number
SpawnpResults == {0, ENOENT, EACCES, ENOEXEC, EAGAIN}

\* a posix_spawn that treats a failure of posix_spawnp as "not eligible"
posix_spawn_result_retry(r, pid) ==
    IF r = 0 THEN Ok(Some([pid |-> pid, status |-> None])) ELSE Ok(None)

\* lines 426-430
posix_spawn_result(r, pid) ==
    IF r = 0 THEN Ok(Some([pid |-> pid, status |-> None])) ELSE Err(OsError(r))

\* lines 40-42 with posix_spawn (lines 333-432).  The posix_spawn_file_actions_* and
\* posix_spawnattr_* calls return 0 or an error number, never -1, and sigemptyset
\* and sigaddset(SIGPIPE) on the local set do not fail, so the cvt(..)? around
\* them (lines 388-414) never returns early.
PosixSpawn ==
    /\ pc = "posix_spawn"
    /\ IF NeedsFork(cmd)
       THEN /\ pc' = "compute_paths"
            /\ UNCHANGED <<probe, p, proc, child, result, hist>>
       ELSE \E h \in Hosts :
              /\ probe' = Some(h)
              /\ IF ProbeFails(h)
                 THEN /\ pc' = "compute_paths"
                      /\ UNCHANGED <<p, proc, child, result, hist>>
                 ELSE \E r \in SpawnpResults, pid \in Pids :
                        LET res == posix_spawn_result(r, pid)
                        IN  /\ hist' = [Logged("posix_spawnp") EXCEPT
                                           !.spawnp = Some(r),
                                           !.os_pid = IF r = 0 THEN Some(pid) ELSE None]
                            /\ IF r = 0
                               THEN /\ proc' = Running
                                    /\ child' = [NoChild EXCEPT !.pc = "image",
                                                                !.image = Some(cmd.program)]
                               ELSE UNCHANGED <<proc, child>>
                            /\ IF ~res.ok
                               THEN /\ result' = Some(RetErr(res.err))
                                    /\ pc' = "done"
                                    /\ UNCHANGED p
                               ELSE IF IsSome(res.val)
                               THEN /\ p' = Unwrap(res.val)
                                    /\ result' = Some(RetOk(Unwrap(res.val)))
                                    /\ pc' = "done"
                               ELSE /\ pc' = "compute_paths"
                                    /\ UNCHANGED <<p, result>>
    /\ UNCHANGED <<cmd, host, possible_paths, bytes, pipe>>
    /\ HandleFrame

\* line 44
ComputePaths ==
    /\ pc = "compute_paths"
    /\ possible_paths' = compute_possible_paths(cmd.program, cmd.envp, host.parent_path)
    /\ pc' = "anon_pipe"
    /\ UNCHANGED <<cmd, host, p, bytes, result, child, pipe, proc, probe, hist>>
    /\ HandleFrame

\* line 46
AnonPipe ==
    /\ pc = "anon_pipe"
    /\ \/ /\ pipe' = [buf |-> <<>>, rd |-> {"parent"}, wr |-> {"parent"}]
          /\ pc' = "fork"
          /\ UNCHANGED result
       \/ /\ result' = Some(RetErr(OsError(EAGAIN)))
          /\ pc' = "done"
          /\ UNCHANGED pipe
    /\ hist' = Logged("anon_pipe")
    /\ UNCHANGED <<cmd, host, possible_paths, p, bytes, child, proc, probe>>
    /\ HandleFrame

\* lines 48-49, 68 and 72: fork fails, or the child exists and inherits both pipe
\* ends; the parent records the pid
Fork ==
    /\ pc = "fork"
    /\ \/ \E pid \in Pids :
            /\ p' = [pid |-> pid, status |-> None]
            /\ proc' = Running
            /\ child' = [NoChild EXCEPT !.pc = "drop_input"]
            /\ pipe' = [pipe EXCEPT !.rd = @ \cup {"child"}, !.wr = @ \cup {"child"}]
            /\ pc' = "drop_output"
            /\ hist' = [Logged("fork") EXCEPT !.os_pid = Some(pid)]
            /\ UNCHANGED result
       \/ /\ result' = Some(RetErr(OsError(EAGAIN)))
          /\ pc' = "done"
          /\ UNCHANGED <<p, proc, child, pipe>>
          /\ hist' = Logged("fork")
    /\ UNCHANGED <<cmd, host, possible_paths, bytes, probe>>
    /\ HandleFrame

\* a parent that keeps its write end open while it reads
ParentKeepsOutput ==
    /\ pc = "drop_output"
    /\ UNCHANGED pipe
    /\ pc' = "read"
    /\ hist' = Logged("drop_output")
    /\ UNCHANGED <<cmd, host, possible_paths, p, bytes, result, child, proc, probe>>
    /\ HandleFrame

\* line 73
ParentDropOutput ==
    /\ pc = "drop_output"
    /\ pipe' = [pipe EXCEPT !.wr = @ \ {"parent"}]
    /\ pc' = "read"
    /\ hist' = Logged("drop_output")
    /\ UNCHANGED <<cmd, host, possible_paths, p, bytes, result, child, proc, probe>>
    /\ HandleFrame

\* a parent that hands out a handle without the pid
SpawnAtEofNoPid(h) == RetOk(NoHandle)

\* line 79: Ok(0) => return Ok((p, ours))
SpawnAtEof(h) == RetOk(h)

Take(s, n) == SubSeq(s, 1, IF n < Len(s) THEN n ELSE Len(s))
Drop(s, n) == SubSeq(s, (IF n < Len(s) THEN n ELSE Len(s)) + 1, Len(s))
Overwrite(buf, data) == [i \in 1..Len(buf) |-> IF i <= Len(data) THEN data[i] ELSE buf[i]]

\* a read loop that takes an interrupted read for a failure of the pipe
ParentReadInterruptedFails ==
    /\ pc \in {"read", "read_retry"}
    /\ \/ /\ pipe.buf = <<>>
          /\ pipe.wr # {}
          /\ pc' = "panic"
          /\ result' = Some(Panic("the CLOEXEC pipe failed"))
          /\ hist' = Logged("read")
          /\ UNCHANGED <<bytes, pipe>>
       \/ /\ pipe.buf = <<>>
          /\ pipe.wr = {}
          /\ result' = Some(SpawnAtEof(p))
          /\ pc' = "done"
          /\ hist' = Logged("read")
          /\ UNCHANGED <<bytes, pipe>>
       \/ /\ pipe.buf # <<>>
          /\ LET data == Take(pipe.buf, 8)
                 got == Overwrite(bytes, data)
             IN  /\ bytes' = got
                 /\ pipe' = [pipe EXCEPT !.buf = Drop(@, 8)]
                 /\ hist' = Logged("read")
                 /\ IF Len(data) = 8
                    THEN IF combine(CLOEXEC_MSG_FOOTER) = combine(SubSeq(got, 5, 8))
                         THEN /\ pc' = "got8"
                              /\ UNCHANGED result
                         ELSE /\ pc' = "panic"
                              /\ result' = Some(Panic("Validation on the CLOEXEC pipe failed"))
                    ELSE /\ pc' = "short"
                         /\ UNCHANGED result
    /\ UNCHANGED <<cmd, host, possible_paths, p, child, proc, probe>>
    /\ HandleFrame

\* lines 77-99, one turn of the loop: input.read(&mut bytes) and the arm taken.
\* The read gives the bytes in the pipe (at most 8), or 0 at end of stream (no
\* write end left open); otherwise it blocks, and a signal can interrupt it
\* (EINTR), after which the loop reads again ("read_retry").
ParentRead ==
    /\ pc \in {"read", "read_retry"}
    /\ \/ /\ pipe.buf = <<>>
          /\ pipe.wr # {}
          /\ pc' = "read_retry"
          /\ UNCHANGED <<hist, bytes, pipe, result>>
       \/ /\ pipe.buf = <<>>
          /\ pipe.wr = {}
          /\ result' = Some(SpawnAtEof(p))
          /\ pc' = "done"
          /\ hist' = Logged("read")
          /\ UNCHANGED <<bytes, pipe>>
       \/ /\ pipe.buf # <<>>
          /\ LET data == Take(pipe.buf, 8)
                 got == Overwrite(bytes, data)
             IN  /\ bytes' = got
                 /\ pipe' = [pipe EXCEPT !.buf = Drop(@, 8)]
                 /\ hist' = Logged("read")
                 /\ IF Len(data) = 8
                    THEN IF combine(CLOEXEC_MSG_FOOTER) = combine(SubSeq(got, 5, 8))
                         THEN /\ pc' = "got8"
                              /\ UNCHANGED result
                         ELSE /\ pc' = "panic"
                              /\ result' = Some(Panic("Validation on the CLOEXEC pipe failed"))
                    ELSE /\ pc' = "short"
                         /\ UNCHANGED result
    /\ UNCHANGED <<cmd, host, possible_paths, p, child, proc, probe>>
    /\ HandleFrame

\* a parent that turns a short read into an ordinary error
SpawnAfterMessageLenient(at, o, buf) ==
    IF ~o.val.ok THEN Panic("wait() should either return Ok or panic")
    ELSE RetErr(OsError(combine(SubSeq(buf, 1, 4))))

\* lines 83-86, 90-92 and 95-97: what spawn ends with after the outcome o of
\* p.wait()
SpawnAfterMessage(at, o, buf) ==
    IF ~o.val.ok THEN Panic("wait() should either return Ok or panic")
    ELSE IF at = "got8" THEN RetErr(OsError(combine(SubSeq(buf, 1, 4))))
    ELSE IF at = "read_err" THEN Panic("the CLOEXEC pipe failed")
    ELSE Panic("short read on the CLOEXEC pipe")

\* a parent that ends spawn after the message without waiting for the child
ParentWaitSkipped ==
    /\ pc \in {"got8", "short", "read_err"}
    /\ LET o == [val |-> Ok(ExitStatus(256))]
       IN  /\ result' = Some(SpawnAfterMessage(pc, o, bytes))
           /\ pc' = IF SpawnAfterMessage(pc, o, bytes).kind = "Panic" THEN "panic" ELSE "done"
    /\ UNCHANGED <<cmd, host, possible_paths, p, bytes, child, pipe, proc, probe, hist>>
    /\ HandleFrame

\* lines 83-86, 90-92 and 95-97: p.wait(), then the error or the panic
ParentWait ==
    /\ pc \in {"got8", "short", "read_err"}
    /\ \E o \in WaitOutcomes(p, proc) :
          /\ p' = o.p
          /\ proc' = o.proc
          /\ hist' = [Logged("wait") EXCEPT !.waitpids = @ + o.waitpids, !.reaps = @ + o.reaps]
          /\ result' = Some(SpawnAfterMessage(pc, o, bytes))
          /\ pc' = IF SpawnAfterMessage(pc, o, bytes).kind = "Panic" THEN "panic" ELSE "done"
    /\ UNCHANGED <<cmd, host, possible_paths, bytes, child, pipe, probe>>
    /\ HandleFrame

----------------------------------------------------------------------------
(* The forked child: lines 50-67 and do_exec (lines 192-319) *)

ParentFrame == UNCHANGED <<cmd, host, pc, possible_paths, p, bytes, result, probe, ret>>

\* a t! that goes on to the next step whatever the call returned
TryIgnoring(failed, errno, next) == [child EXCEPT !.pc = next]

\* t!(e): go on to `next`, or return the error
Try(failed, errno, next) ==
    IF failed THEN [child EXCEPT !.pc = "report", !.err = Some(OsError(errno))]
    ELSE [child EXCEPT !.pc = next]

\* line 51
ChildDropInput ==
    /\ child.pc = "drop_input"
    /\ pipe' = [pipe EXCEPT !.rd = @ \ {"child"}]
    /\ child' = [child EXCEPT !.pc = "stdin"]
    /\ UNCHANGED <<proc, hist>>
    /\ ParentFrame

AfterStream(s) == IF s = "stdin" THEN "stdout" ELSE IF s = "stdout" THEN "stderr" ELSE "setgid"

\* lines 207-215
ChildDup2 ==
    /\ child.pc \in Streams
    /\ IF child.pc \in cmd.stdio
       THEN \E failed \in BOOLEAN :
              /\ child' = Try(failed, EBADF, AfterStream(child.pc))
              /\ hist' = ChildLogged("dup2", child.pc, failed)
       ELSE /\ child' = [child EXCEPT !.pc = AfterStream(child.pc)]
            /\ UNCHANGED hist
    /\ UNCHANGED <<pipe, proc>>
    /\ ParentFrame

\* lines 218-220
ChildSetgid ==
    /\ child.pc = "setgid"
    /\ IF cmd.gid
       THEN \E failed \in BOOLEAN :
              /\ child' = Try(failed, EPERM, "setuid")
              /\ hist' = ChildLogged("setgid", "", failed)
       ELSE /\ child' = [child EXCEPT !.pc = "setuid"]
            /\ UNCHANGED hist
    /\ UNCHANGED <<pipe, proc>>
    /\ ParentFrame

\* a child that treats a failure of setgroups like any other failure
ChildSetuidCheckedGroups ==
    /\ child.pc = "setuid"
    /\ IF cmd.uid
       THEN \E groupsFailed \in BOOLEAN :
              IF groupsFailed
              THEN /\ child' = Try(TRUE, EPERM, "chdir")
                   /\ hist' = ChildLogged("setgroups", "", TRUE)
              ELSE \E failed \in BOOLEAN :
                     /\ child' = Try(failed, EPERM, "chdir")
                     /\ hist' = [hist EXCEPT !.child =
                                   @ \o << [call |-> "setgroups", arg |-> "", failed |-> FALSE],
                                           [call |-> "setuid", arg |-> "", failed |-> failed] >>]
       ELSE /\ child' = [child EXCEPT !.pc = "chdir"]
            /\ UNCHANGED hist
    /\ UNCHANGED <<pipe, proc>>
    /\ ParentFrame

\* lines 221-232: setgroups, whose result is dropped, then setuid
ChildSetuid ==
    /\ child.pc = "setuid"
    /\ IF cmd.uid
       THEN \E groupsFailed \in BOOLEAN, failed \in BOOLEAN :
              /\ child' = Try(failed, EPERM, "chdir")
              /\ hist' = [hist EXCEPT !.child =
                            @ \o << [call |-> "setgroups", arg |-> "", failed |-> groupsFailed],
                                    [call |-> "setuid", arg |-> "", failed |-> failed] >>]
       ELSE /\ child' = [child EXCEPT !.pc = "chdir"]
            /\ UNCHANGED hist
    /\ UNCHANGED <<pipe, proc>>
    /\ ParentFrame

\* lines 234-236
ChildChdir ==
    /\ child.pc = "chdir"
    /\ IF cmd.cwd
       THEN \E failed \in BOOLEAN :
              /\ child' = Try(failed, ENOENT, "sigemptyset")
              /\ hist' = ChildLogged("chdir", "", failed)
       ELSE /\ child' = [child EXCEPT !.pc = "sigemptyset"]
            /\ UNCHANGED hist
    /\ UNCHANGED <<pipe, proc>>
    /\ ParentFrame

AfterSignalStep(s) ==
    IF s = "sigemptyset" THEN "pthread_sigmask"
    ELSE IF s = "pthread_sigmask" THEN "signal" ELSE "closures"

\* lines 249-265: sigemptyset, pthread_sigmask, signal(SIGPIPE, SIG_DFL)
ChildSignals ==
    /\ child.pc \in {"sigemptyset", "pthread_sigmask", "signal"}
    /\ \E failed \in BOOLEAN :
          /\ child' = Try(failed, EINVAL, AfterSignalStep(child.pc))
          /\ hist' = ChildLogged(child.pc, "", failed)
    /\ UNCHANGED <<pipe, proc>>
    /\ ParentFrame

\* what a pre-exec callback can return: Ok(()), an OS error, an error of its own
ClosureResults == {None, Some(OsError(EIO)), Some(CustomError("Other", "pre-exec"))}

\* lines 268-270: the callbacks, in registration order (child.idx is the next one)
ChildClosure ==
    /\ child.pc = "closures"
    /\ IF child.idx <= cmd.closures
       THEN \E r \in ClosureResults :
              /\ child' = IF IsSome(r) THEN [child EXCEPT !.pc = "report", !.err = r]
                          ELSE [child EXCEPT !.idx = @ + 1]
              /\ hist' = ChildLogged("closure", <<child.idx>>, IsSome(r))
       ELSE /\ child' = [child EXCEPT !.pc = "exec", !.idx = 1]
            /\ UNCHANGED hist
    /\ UNCHANGED <<pipe, proc>>
    /\ ParentFrame

\* what execve can return: it does not return ("ok"), or it fails with an errno
ExecErrnos == {ENOENT, EACCES, EPERM, ETIMEDOUT, ENOEXEC}

\* a search that stops at the first permission-denied candidate
AfterExecFailureStopOnDenied(c, err) ==
    IF ErrorKind(err) \in {"NotFound", "TimedOut"} THEN [c EXCEPT !.idx = @ + 1]
    ELSE [c EXCEPT !.pc = "report", !.err = Some(err)]

\* a search that tries the candidates from the last to the first
ExecCandidateReversed(c, list) == list[Len(list) + 1 - c.idx]

\* lines 279-280: the candidate of this turn of the loop
ExecCandidate(c, list) == list[c.idx]

\* a search that remembers the last permission-denied error instead of the first
AfterExecFailureKeepLast(c, err) ==
    IF ErrorKind(err) = "PermissionDenied"
    THEN [c EXCEPT !.idx = @ + 1, !.pending = Some(err)]
    ELSE IF ErrorKind(err) \in {"NotFound", "TimedOut"}
    THEN [c EXCEPT !.idx = @ + 1]
    ELSE [c EXCEPT !.pc = "report", !.err = Some(err)]

\* a search that, on a fatal error, returns the remembered permission-denied one
AfterExecFailurePreferPending(c, err) ==
    IF ErrorKind(err) = "PermissionDenied"
    THEN [c EXCEPT !.idx = @ + 1, !.pending = IF IsSome(@) THEN @ ELSE Some(err)]
    ELSE IF ErrorKind(err) \in {"NotFound", "TimedOut"}
    THEN [c EXCEPT !.idx = @ + 1]
    ELSE [c EXCEPT !.pc = "report", !.err = IF IsSome(c.pending) THEN c.pending ELSE Some(err)]

\* lines 285-303: the child after execve failed with err on a candidate
AfterExecFailure(c, err) ==
    IF ErrorKind(err) = "PermissionDenied"
    THEN [c EXCEPT !.idx = @ + 1, !.pending = IF IsSome(@) THEN @ ELSE Some(err)]
    ELSE IF ErrorKind(err) \in {"NotFound", "TimedOut"}
    THEN [c EXCEPT !.idx = @ + 1]
    ELSE [c EXCEPT !.pc = "report", !.err = Some(err)]

\* an exhausted search that reports the last error class it saw as EACCES
AfterExhaustedDenied(c) ==
    [c EXCEPT !.pc = "report",
              !.err = IF IsSome(c.pending) THEN c.pending ELSE Some(OsError(EACCES))]

\* lines 305-308: the candidates are exhausted
AfterExhausted(c) ==
    [c EXCEPT !.pc = "report",
              !.err = IF IsSome(c.pending) THEN c.pending ELSE Some(OsError(ENOENT))]

\* self.get_argv()[0]: the program as given
Argv0(c) == c.program

\* execve succeeded: the image is replaced and the CLOEXEC pipe ends are closed
Replaced(path) ==
    /\ child' = [child EXCEPT !.pc = "image", !.image = Some(path)]
    /\ pipe' = [pipe EXCEPT !.wr = @ \ {"child"}, !.rd = @ \ {"child"}]
    /\ hist' = ChildLogged("execve", path, FALSE)

\* lines 276-318
ChildExec ==
    /\ child.pc = "exec"
    /\ IF IsSome(possible_paths)
       THEN LET list == Unwrap(possible_paths)
            IN  IF child.idx > Len(list)
                THEN /\ child' = AfterExhausted(child)
                     /\ UNCHANGED <<pipe, hist>>
                ELSE \/ Replaced(ExecCandidate(child, list))
                     \/ \E e \in ExecErrnos :
                          /\ child' = AfterExecFailure(child, OsError(e))
                          /\ hist' = [hist EXCEPT !.child = Append(@,
                                         [call |-> "execve", arg |-> ExecCandidate(child, list),
                                          failed |-> TRUE, errno |-> e])]
                          /\ UNCHANGED pipe
       ELSE \/ Replaced(Argv0(cmd))
            \/ \E e \in ExecErrnos :
                 /\ child' = [child EXCEPT !.pc = "report", !.err = Some(OsError(e))]
                 /\ hist' = [hist EXCEPT !.child = Append(@,
                                [call |-> "execve", arg |-> Argv0(cmd), failed |-> TRUE,
                                 errno |-> e])]
                 /\ UNCHANGED pipe
    /\ UNCHANGED proc
    /\ ParentFrame

\* lines 53-65: the 8-byte message goes into the pipe in one write
ChildReport ==
    /\ child.pc = "report"
    /\ pc # "do_exec"
    /\ pipe' = [pipe EXCEPT !.buf = @ \o EncodeMsg(Unwrap(child.err))]
    /\ child' = [child EXCEPT !.pc = "exit"]
    /\ hist' = ChildLogged("write", "", FALSE)
    /\ UNCHANGED proc
    /\ ParentFrame

\* a child that returns do_exec's error from spawn instead of calling _exit
ChildReturnsFromSpawn ==
    /\ child.pc = "exit"
    /\ pipe' = [pipe EXCEPT !.wr = @ \ {"child"}, !.rd = @ \ {"child"}]
    /\ child' = [child EXCEPT !.pc = "returned"]
    /\ result' = Some(RetErr(Unwrap(child.err)))
    /\ proc' = Zombie(256)
    /\ hist' = ChildLogged("return", "", FALSE)
    /\ UNCHANGED <<cmd, host, pc, possible_paths, p, bytes, probe, ret>>

\* line 66: _exit(1)
ChildExit ==
    /\ child.pc = "exit"
    /\ pipe' = [pipe EXCEPT !.wr = @ \ {"child"}, !.rd = @ \ {"child"}]
    /\ child' = [child EXCEPT !.pc = "gone"]
    /\ proc' = Zombie(256)
    /\ hist' = ChildLogged("_exit", "", FALSE)
    /\ ParentFrame

----------------------------------------------------------------------------
(* Commands and hosts *)

XItem == <<"X", "=", "a">>
PathItem(v) == PATH_EQ \o v

\* the environment overrides a builder can leave for a parent PATH: untouched, a
\* variable other than PATH added (envp then carries the parent's PATH), cleared,
\* PATH set
EnvChoices(parent, values) ==
    {[envp |-> None, env_saw_path |-> FALSE],
     [envp |-> Some(<<XItem>> \o (IF IsSome(parent) THEN <<PathItem(Unwrap(parent))>> ELSE <<>>)),
      env_saw_path |-> FALSE],
     [envp |-> Some(<<>>), env_saw_path |-> TRUE]}
    \cup {[envp |-> Some(<<XItem, PathItem(v)>>), env_saw_path |-> TRUE] : v \in values}

Command(program, env, cwd, gid, uid, closures, stdio, saw_nul) ==
    [program |-> program, envp |-> env.envp, env_saw_path |-> env.env_saw_path, cwd |-> cwd,
     gid |-> gid, uid |-> uid, closures |-> closures, stdio |-> stdio, saw_nul |-> saw_nul]

SpawnPrograms == {<<"p">>, <<"d", "/", "p">>}
SpawnParentPaths == {None, Some(<<"a">>)}
SpawnEnvPaths == {<<"b">>}

\* stdio plans: each stream is given a descriptor in two of them and none in two
StdioPlans == {{}, {"stdin"}, {"stdout", "stderr"}, Streams}

\* the state before spawn is entered
Fresh ==
    /\ pc = "spawn"
    /\ possible_paths = None
    /\ p = NoHandle
    /\ bytes = <<0, 0, 0, 0, 0, 0, 0, 0>>
    /\ result = None
    /\ child = NoChild
    /\ pipe = NoPipe
    /\ proc = NoProc
    /\ probe = None
    /\ ret = NoRet
    /\ hist = NoHist

Init ==
    /\ host \in {[parent_path |-> pp] : pp \in SpawnParentPaths}
    /\ \E program \in SpawnPrograms, env \in EnvChoices(host.parent_path, SpawnEnvPaths),
          cwd \in BOOLEAN, gid \in BOOLEAN, uid \in BOOLEAN, closures \in 0..MaxClosures,
          stdio \in StdioPlans, saw_nul \in BOOLEAN :
          cmd = Command(program, env, cwd, gid, uid, closures, stdio, saw_nul)
    /\ Fresh

Next ==
    \/ SpawnEntry
    \/ SetupIo
    \/ PosixSpawn
    \/ ComputePaths
    \/ AnonPipe
    \/ Fork
    \/ ParentDropOutput
    \/ ParentRead
    \/ ParentWait
    \/ ChildDropInput
    \/ ChildDup2
    \/ ChildSetgid
    \/ ChildSetuid
    \/ ChildChdir
    \/ ChildSignals
    \/ ChildClosure
    \/ ChildExec
    \/ ChildReport
    \/ ChildExit

Spec == Init /\ [][Next]_vars

----------------------------------------------------------------------------
(* Command::exec (lines 112-125): do_exec runs in the calling process, and the *)
(* error it returns is what exec returns (ret)                                *)

ExecRet(e) == [op |-> "exec", val |-> Err(e)]

\* lines 113-118: capture_env, then the saw_nul check
ExecEntry ==
    /\ pc = "exec"
    /\ IF cmd.saw_nul
       THEN /\ ret' = ExecRet(NulError)
            /\ pc' = "done"
       ELSE /\ pc' = "exec_compute_paths"
            /\ UNCHANGED ret
    /\ UNCHANGED <<cmd, host, possible_paths, p, bytes, result, child, pipe, proc, probe, hist>>

\* line 120
ExecComputePaths ==
    /\ pc = "exec_compute_paths"
    /\ possible_paths' = compute_possible_paths(cmd.program, cmd.envp, host.parent_path)
    /\ pc' = "exec_setup_io"
    /\ UNCHANGED <<cmd, host, p, bytes, result, child, pipe, proc, probe, hist, ret>>

\* lines 121-124: setup_io; its error is returned, otherwise do_exec starts
ExecSetupIo ==
    /\ pc = "exec_setup_io"
    /\ \/ /\ child' = [NoChild EXCEPT !.pc = "stdin"]
          /\ pc' = "do_exec"
          /\ UNCHANGED ret
       \/ /\ ret' = ExecRet(OsError(EAGAIN))
          /\ pc' = "done"
          /\ UNCHANGED child
    /\ hist' = Logged("setup_io")
    /\ UNCHANGED <<cmd, host, possible_paths, p, bytes, result, pipe, proc, probe>>

\* line 122: do_exec returned an error, and exec returns it
ExecReturn ==
    /\ pc = "do_exec"
    /\ child.pc = "report"
    /\ ret' = ExecRet(Unwrap(child.err))
    /\ pc' = "done"
    /\ child' = [child EXCEPT !.pc = "returned"]
    /\ UNCHANGED <<cmd, host, possible_paths, p, bytes, result, pipe, proc, probe, hist>>

\* the entry points of a Command: spawn and exec
EntryPoints == {"spawn", "exec"}

InitEntry ==
    /\ host \in {[parent_path |-> pp] : pp \in SpawnParentPaths}
    /\ \E program \in SpawnPrograms, env \in EnvChoices(host.parent_path, SpawnEnvPaths),
          cwd \in BOOLEAN, closures \in 0..1, stdio \in {{}, {"stdin"}}, saw_nul \in BOOLEAN :
          cmd = Command(program, env, cwd, FALSE, FALSE, closures, stdio, saw_nul)
    /\ pc \in EntryPoints
    /\ possible_paths = None
    /\ p = NoHandle
    /\ bytes = <<0, 0, 0, 0, 0, 0, 0, 0>>
    /\ result = None
    /\ child = NoChild
    /\ pipe = NoPipe
    /\ proc = NoProc
    /\ probe = None
    /\ ret = NoRet
    /\ hist = NoHist

NextEntry ==
    \/ Next
    \/ ExecEntry
    \/ ExecComputePaths
    \/ ExecSetupIo
    \/ ExecReturn

SpecEntry == InitEntry /\ [][NextEntry]_vars

----------------------------------------------------------------------------
(* The PATH traversal on every PATH value up to MaxPathLen bytes *)

PathAlphabet == {"a", "b", ":"}
PathValues == UNION {[1..n -> PathAlphabet] : n \in 0..MaxPathLen}

\* a Command that must fork (one pre-exec callback) and inherits the environment
SearchCommand == Command(<<"p">>, [envp |-> None, env_saw_path |-> FALSE],
                         FALSE, FALSE, FALSE, 1, {}, FALSE)

InitSearch ==
    /\ host \in {[parent_path |-> Some(v)] : v \in PathValues}
    /\ cmd = SearchCommand
    /\ Fresh

SpecSearch == InitSearch /\ [][Next]_vars

----------------------------------------------------------------------------
(* The read loop on a pipe that holds something else than one message: a    *)
(* pre-exec callback runs in the child with the write end open and can      *)
(* write to it; and on a read that fails                                    *)

\* what such a callback writes: 1 to 9 bytes of a message with the marker, or
\* with a wrong last byte
PipeGarbage ==
    {Take(<<0, 0, 0, ENOENT>> \o foot \o <<0>>, n) :
        foot \in {CLOEXEC_MSG_FOOTER, <<78, 79, 69, 89>>}, n \in 1..9}

\* lines 268-270 with a callback that writes to the inherited write end
ClosureWritesPipe ==
    /\ child.pc = "closures"
    /\ child.idx <= cmd.closures
    /\ pipe.buf = <<>>
    /\ \E g \in PipeGarbage : pipe' = [pipe EXCEPT !.buf = g]
    /\ UNCHANGED <<child, proc, hist>>
    /\ ParentFrame

\* lines 89-90: input.read fails with an error that is not EINTR; bytes and
\* the pipe are left as they were
ParentReadFails ==
    /\ pc \in {"read", "read_retry"}
    /\ pc' = "read_err"
    /\ hist' = Logged("read_failed")
    /\ UNCHANGED <<cmd, host, possible_paths, p, bytes, result, child, pipe, proc, probe>>
    /\ HandleFrame

InitPipe ==
    /\ host \in {[parent_path |-> pp] : pp \in SpawnParentPaths}
    /\ cmd = SearchCommand
    /\ Fresh

NextPipe ==
    \/ Next
    \/ ClosureWritesPipe
    \/ ParentReadFails

SpecPipe == InitPipe /\ [][NextPipe]_vars

----------------------------------------------------------------------------
(* The fallback path with both processes scheduled: the parent is the       *)
(* calling thread inside spawn, the child is a process of its own, and each *)
(* takes its next step when it has one. A read that blocks has no step.     *)

ParentSteps == AnonPipe \/ Fork \/ ParentDropOutput \/ ParentRead \/ ParentWait

ChildSteps ==
    \/ ChildDropInput
    \/ ChildDup2
    \/ ChildSetgid
    \/ ChildSetuid
    \/ ChildChdir
    \/ ChildSignals
    \/ ChildClosure
    \/ ChildExec
    \/ ChildReport
    \/ ChildExit

SpecLive == InitPipe /\ [][Next]_vars /\ WF_vars(ParentSteps) /\ WF_vars(ChildSteps)

----------------------------------------------------------------------------
(* compute_possible_paths alone, on every program, override and parent PATH *)

PathPrograms == {<<"p">>, <<"p", "q">>, <<"/", "p">>, <<"d", "/", "p">>, <<"p", "/">>}
DecoyItem == <<"P", "A", "T", "H", "X", "=", "b">>

\* EnvChoices, and overrides where PATH is not the first item, follows a variable
\* whose name starts with PATH, or is absent beside others
RichEnvChoices(parent, values) ==
    EnvChoices(parent, values)
    \cup {[envp |-> Some(<<PathItem(v), XItem>>), env_saw_path |-> TRUE] : v \in values}
    \cup {[envp |-> Some(<<DecoyItem, PathItem(v)>>), env_saw_path |-> TRUE] : v \in values}
    \cup {[envp |-> Some(<<DecoyItem, XItem>>), env_saw_path |-> TRUE]}

\* spawn has reached line 44: setup_io is done and posix_spawn returned Ok(None)
InitPaths ==
    /\ host \in {[parent_path |-> pp] : pp \in {None} \cup {Some(v) : v \in PathValues}}
    /\ \E program \in PathPrograms, env \in RichEnvChoices(host.parent_path, PathValues) :
          cmd = Command(program, env, FALSE, FALSE, FALSE, 1, {}, FALSE)
    /\ pc = "compute_paths"
    /\ possible_paths = None
    /\ p = NoHandle
    /\ bytes = <<0, 0, 0, 0, 0, 0, 0, 0>>
    /\ result = None
    /\ child = NoChild
    /\ pipe = NoPipe
    /\ proc = NoProc
    /\ probe = None
    /\ ret = NoRet
    /\ hist = [NoHist EXCEPT !.parent = <<"setup_io">>]

NextPaths == ComputePaths

SpecPaths == InitPaths /\ [][NextPaths]_vars

----------------------------------------------------------------------------
(* The error message alone: the child is about to report what do_exec returned *)

Pow2(n) == 2 ^ n

\* i32 codes: the small ones, and those around each byte boundary and both ends
CodecInputs ==
    (-MaxErrno..MaxErrno)
    \cup {s * Pow2(k) + d : s \in {-1, 1}, k \in {7, 8, 15, 16, 23, 24, 30}, d \in {-1, 0, 1}}
    \cup {(Pow2(30) - 1) * 2 + 1, (-Pow2(30)) * 2, (-Pow2(30)) * 2 + 1, ENOENT, EACCES, ETIMEDOUT,
          EINVAL, 16909060, -16909060, 2018915346}

CodecErrors == {OsError(e) : e \in CodecInputs} \cup {CustomError("Other", "pre-exec")}

\* spawn after fork: the parent has closed its write end, the child its read end,
\* and the child's pre-exec callback has returned the error
InitCodec ==
    /\ host = [parent_path |-> None]
    /\ cmd = Command(<<"d", "/", "p">>, [envp |-> None, env_saw_path |-> FALSE],
                     FALSE, FALSE, FALSE, 1, {}, FALSE)
    /\ pc = "read"
    /\ possible_paths = None
    /\ \E pid \in Pids : p = [pid |-> pid, status |-> None]
    /\ bytes = <<0, 0, 0, 0, 0, 0, 0, 0>>
    /\ result = None
    /\ \E e \in CodecErrors : child = [NoChild EXCEPT !.pc = "report", !.err = Some(e)]
    /\ pipe = [buf |-> <<>>, rd |-> {"parent"}, wr |-> {"child"}]
    /\ proc = Running
    /\ probe = None
    /\ ret = NoRet
    /\ hist = [NoHist EXCEPT !.parent = <<"setup_io", "anon_pipe", "fork", "drop_output">>,
                             !.os_pid = Some(p.pid),
                             !.child = << [call |-> "sigemptyset", arg |-> "", failed |-> FALSE],
                                          [call |-> "pthread_sigmask", arg |-> "", failed |-> FALSE],
                                          [call |-> "signal", arg |-> "", failed |-> FALSE],
                                          [call |-> "closure", arg |-> <<1>>, failed |-> TRUE] >>]

NextCodec ==
    \/ ChildReport
    \/ ChildExit
    \/ ParentRead
    \/ ParentWait

SpecCodec == InitCodec /\ [][NextCodec]_vars

----------------------------------------------------------------------------
(* The Process handle alone: spawn has returned Ok((p, ours)) *)

\* the state in which posix_spawn has returned the handle of a running child
InitHandle ==
    /\ host = [parent_path |-> None]
    /\ cmd = Command(<<"p">>, [envp |-> None, env_saw_path |-> FALSE],
                     FALSE, FALSE, FALSE, 0, {}, FALSE)
    /\ pc = "done"
    /\ possible_paths = None
    /\ \E pid \in Pids : p = [pid |-> pid, status |-> None]
    /\ bytes = <<0, 0, 0, 0, 0, 0, 0, 0>>
    /\ result = Some(RetOk(p))
    /\ child = [NoChild EXCEPT !.pc = "image", !.image = Some(<<"p">>)]
    /\ pipe = NoPipe
    /\ proc = Running
    /\ probe = Some([platform |-> "macos", glibc |-> None])
    /\ ret = NoRet
    /\ hist = [NoHist EXCEPT !.parent = <<"setup_io", "posix_spawnp">>, !.spawnp = Some(0),
                             !.os_pid = Some(p.pid)]

NextHandle ==
    \/ wait
    \/ try_wait
    \/ kill
    \/ ProgramExits
    \/ SigkillDelivered
    \/ ReapedElsewhere

SpecHandle == InitHandle /\ [][NextHandle]_vars

----------------------------------------------------------------------------
(* Claims about the Process handle (SpecHandle) *)

\* this step is a call of the Process method op by the caller
Called(op) == Len(hist'.ops) = Len(hist.ops) + 1 /\ ret'.op = op

\* C1: the cached status goes from unobserved to observed at most once: once it is
\* Some(s) it never changes, every later wait() returns Ok(s) and every later
\* try_wait() returns Ok(Some(s)), no later step makes a waitpid call, and over the
\* handle's life at most one waitpid call collects the child.
C1_StatusCachedOnce ==
    /\ [](hist.reaps <= 1)
    /\ [][IsSome(p.status) =>
            /\ p'.status = p.status
            /\ hist'.waitpids = hist.waitpids
            /\ hist'.reaps = hist.reaps
            /\ (Called("wait") => ret'.val.ok /\ ret'.val.val = Unwrap(p.status))
            /\ (Called("try_wait") => ret'.val.ok /\ ret'.val.val = p.status)]_vars

\* wait() twice: the second call returned the status the first one cached, and the
\* child was collected once
C1_Witness ==
    /\ hist.ops = <<"wait", "wait">>
    /\ IsSome(p.status)
    /\ ret.val.ok /\ ret.val.val = Unwrap(p.status)
    /\ hist.reaps = 1

\* C2: kill() on a handle whose status is observed returns the error of lines
\* 455-456 and makes no kill syscall (the process table entry is untouched);
\* kill() on a handle whose status is unobserved makes one kill syscall, on the
\* stored pid; so every kill syscall was made on the stored pid.
C2_KillOnlyWhileUnobserved ==
    /\ [](\A i \in 1..Len(hist.kills) : hist.kills[i] = p.pid)
    /\ [][Called("kill") =>
            IF IsSome(p.status)
            THEN /\ ~ret'.val.ok /\ ret'.val.err = KillExited
                 /\ hist'.kills = hist.kills
                 /\ proc' = proc
            ELSE hist'.kills = Append(hist.kills, p.pid)]_vars

\* kill() after a successful wait(): the error, and no signal sent
C2_Witness ==
    /\ hist.ops = <<"wait", "kill">>
    /\ IsSome(p.status)
    /\ ~ret.val.ok /\ ret.val.err = KillExited
    /\ hist.kills = <<>>

\* C3: try_wait() never blocks (it has an outcome in every state of the child).
\* With the status unobserved and the child running it returns Ok(None) and
\* leaves the handle and the process table as they were; with the child exited
\* it caches and returns the status wait() would.  While the status is
\* unobserved, wait() and try_wait() make a waitpid call.
C3_TryWaitNonBlocking ==
    /\ [](CallerHasHandle => TryWaitOutcomes(p, proc) # {})
    /\ [][/\ (Called("try_wait") /\ ~IsSome(p.status) /\ proc.state = "running" =>
                /\ ret'.val.ok /\ ret'.val.val = None
                /\ p' = p
                /\ proc' = proc)
          /\ (Called("try_wait") /\ ~IsSome(p.status) /\ proc.state = "zombie" =>
                /\ p'.status = Some(ExitStatus(proc.wstatus))
                /\ ret'.val.ok /\ ret'.val.val = p'.status
                /\ \E o \in WaitOutcomes(p, proc) :
                      o.p = p' /\ o.proc = proc' /\ o.val.ok /\ Some(o.val.val) = ret'.val.val)
          /\ ((Called("try_wait") \/ Called("wait")) /\ ~IsSome(p.status) =>
                hist'.waitpids > hist.waitpids)]_vars

\* try_wait() twice: the first found the child running and cached nothing, so the
\* second asked the OS again and cached the status
C3_Witness ==
    /\ hist.ops = <<"try_wait", "try_wait">>
    /\ hist.waitpids = 2
    /\ IsSome(p.status)
    /\ ret.val.ok /\ ret.val.val = p.status

----------------------------------------------------------------------------
(* Claims about spawn (Spec, SpecSearch, SpecPaths, SpecCodec) *)

\* the execve calls the child has made, in order
Execs == SelectSeq(hist.child, LAMBDA e : e.call = "execve")

\* spawn has returned to its caller, or panicked
Ended == pc \in {"done", "panic"}

Returned(r) == pc = "done" /\ result = Some(r)

\* C4: a program the OS reports as nonexistent.  On the fast strategy, when
\* posix_spawnp answered ENOENT, spawn has returned Err(ENOENT) and no child was
\* created.  On the fallback strategy, when the child reached execve and every
\* execve (on each candidate, or on the literal path) failed with ENOENT, spawn
\* ends by returning Err(ENOENT), with the child collected.  Whatever error
\* spawn returns, no running or uncollected child of the call is left.
C4_NonexistentProgram ==
    /\ (hist.spawnp = Some(ENOENT) =>
          Returned(RetErr(OsError(ENOENT))) /\ proc.state = "none")
    /\ (Ended /\ Execs # <<>> /\ (\A i \in 1..Len(Execs) : Execs[i].failed /\ Execs[i].errno = ENOENT) =>
          Returned(RetErr(OsError(ENOENT))) /\ proc.state = "reaped")
    /\ (pc = "done" /\ Unwrap(result).kind = "Err" => proc.state \in {"none", "reaped"})

\* the fallback strategy tried the single candidate a/p, the OS said ENOENT, and
\* spawn returned ENOENT with the child collected
C4_Witness ==
    /\ Returned(RetErr(OsError(ENOENT)))
    /\ possible_paths = Some(<< <<"a", "/", "p">> >>)
    /\ Len(Execs) = 1 /\ Execs[1].failed /\ Execs[1].errno = ENOENT
    /\ proc.state = "reaped"

\* C5: on the fallback strategy, once the parent has read 8 bytes whose last 4
\* are the marker ("got8"), the first 4 decode (big-endian) to the code of the
\* error do_exec returned in the child, and when spawn then returns, it returns
\* Err of that code, no handle, after one waitpid has collected the child (the
\* wait is the parent's last step).  An error without an OS code (a pre-exec
\* callback's own error) travels as EINVAL.
C5_ErrorMessageSurfaced ==
    /\ (pc = "got8" =>
          /\ IsSome(child.err)
          /\ (IsSome(raw_os_error(Unwrap(child.err))) =>
                combine(SubSeq(bytes, 1, 4)) = Unwrap(raw_os_error(Unwrap(child.err))))
          /\ (~IsSome(raw_os_error(Unwrap(child.err))) => combine(SubSeq(bytes, 1, 4)) = EINVAL)
          /\ result = None)
    /\ (pc = "done" /\ hist.parent # <<>> /\ hist.parent[Len(hist.parent)] = "wait" =>
          /\ result = Some(RetErr(OsError(combine(SubSeq(bytes, 1, 4)))))
          /\ (IsSome(raw_os_error(Unwrap(child.err))) =>
                Unwrap(result).err = Unwrap(child.err))
          /\ SubSeq(bytes, 5, 8) = CLOEXEC_MSG_FOOTER
          /\ proc.state = "reaped"
          /\ hist.reaps = 1
          /\ IsSome(p.status))

\* setuid failed with EPERM in the child; the parent read the message, waited,
\* and returned Err(EPERM)
C5_Witness ==
    /\ Returned(RetErr(OsError(EPERM)))
    /\ child.err = Some(OsError(EPERM))
    /\ bytes = <<0, 0, 0, EPERM>> \o CLOEXEC_MSG_FOOTER
    /\ hist.parent[Len(hist.parent)] = "wait"
    /\ proc.state = "reaped"

\* the parent is in its read loop and the read it makes next returns 0
AtEof == pc \in {"read", "read_retry"} /\ pipe.buf = <<>> /\ pipe.wr = {}

\* C6: on the fallback strategy, the parent's step from a state where its read
\* returns 0 is the return of Ok with the handle [pid of fork, status None],
\* without a waitpid call and without a change to the child's process table
\* entry; and whenever spawn has returned Ok after a fork, the handle is that
\* one and spawn has made no waitpid call.
C6_EofMeansSuccess ==
    /\ [](pc = "done" /\ Unwrap(result).kind = "Ok" /\ Contains(hist.parent, "fork") =>
            /\ Unwrap(result).p = [pid |-> Unwrap(hist.os_pid), status |-> None]
            /\ hist.parent[Len(hist.parent)] = "read"
            /\ hist.waitpids = 0
            /\ hist.reaps = 0
            /\ proc.state # "reaped")
    /\ [][AtEof /\ hist'.parent # hist.parent =>
            /\ pc' = "done"
            /\ result' = Some(RetOk([pid |-> Unwrap(hist.os_pid), status |-> None]))
            /\ hist'.waitpids = hist.waitpids
            /\ proc' = proc]_vars

\* fork gave pid 2, the child's execve of d/p succeeded, the parent read 0 bytes
\* and returned the handle of pid 2
C6_Witness ==
    /\ Returned(RetOk([pid |-> 2, status |-> None]))
    /\ hist.os_pid = Some(2)
    /\ Contains(hist.parent, "fork")
    /\ child.pc = "image"
    /\ hist.waitpids = 0

\* C7: for an i32 OS error code e that do_exec returned, the 8 bytes the child
\* writes are e's 4 big-endian bytes and then "NOEX"; the parent, having read
\* them, finds the marker equal and decodes e with combine, and spawn returns
\* Err(e); the message never leads to a panic.
C7_MessageRoundTrip ==
    /\ pc \notin {"panic", "short"}
    /\ (IsSome(raw_os_error(Unwrap(child.err))) =>
          LET e == Unwrap(raw_os_error(Unwrap(child.err)))
          IN  /\ (pipe.buf # <<>> =>
                    /\ Len(pipe.buf) = 8
                    /\ \A i \in 1..8 : pipe.buf[i] \in 0..255
                    /\ SubSeq(pipe.buf, 5, 8) = <<78, 79, 69, 88>>
                    /\ combine(SubSeq(pipe.buf, 1, 4)) = e)
              /\ (pc \in {"got8", "done"} =>
                    /\ combine(SubSeq(bytes, 1, 4)) = e
                    /\ combine(CLOEXEC_MSG_FOOTER) = combine(SubSeq(bytes, 5, 8)))
              /\ (pc = "done" => result = Some(RetErr(OsError(e)))))

\* the code 0x01020304 went through the pipe as 1, 2, 3, 4, N, O, E, X
C7_Witness ==
    /\ pc = "done"
    /\ child.err = Some(OsError(16909060))
    /\ bytes = <<1, 2, 3, 4, 78, 79, 69, 88>>
    /\ result = Some(RetErr(OsError(16909060)))

----------------------------------------------------------------------------
(* Claims about the PATH search (SpecSearch, Spec, SpecPaths) *)

EndsWith(s, suf) == Len(s) >= Len(suf) /\ SubSeq(s, Len(s) - Len(suf) + 1, Len(s)) = suf

RECURSIVE Join(_, _)
Join(segs, sep) ==
    IF Len(segs) = 0 THEN <<>>
    ELSE IF Len(segs) = 1 THEN segs[1]
    ELSE segs[1] \o <<sep>> \o Join(Tail(segs), sep)

\* what precedes "/<program>" in a candidate
DirOf(candidate, program) == SubSeq(candidate, 1, Len(candidate) - Len(program) - 1)

\* list is one <dir>/<program> per ":"-separated segment of value, in the order
\* of the segments: no dir holds a ":", and the dirs joined by ":" give value back
IsCandidateListFor(list, value, program) ==
    /\ Len(list) >= 1
    /\ \A i \in 1..Len(list) :
          /\ EndsWith(list[i], <<"/">> \o program)
          /\ ~Contains(DirOf(list[i], program), ":")
    /\ Join([i \in 1..Len(list) |-> DirOf(list[i], program)], ":") = value

\* spawn is past line 44
PathsComputed == pc = "anon_pipe" \/ Contains(hist.parent, "anon_pipe")

\* C8: for a program without "/" and the parent's PATH value, the candidate
\* list is one <dir>/<program> per ":"-separated segment in the order of the
\* segments; the child's k-th execve is on the k-th candidate; every execve
\* before the last one failed; and once an execve succeeds the child runs that
\* candidate's image and makes no further execve.
C8_PathOrderPreserved ==
    /\ (PathsComputed =>
          /\ IsSome(possible_paths)
          /\ IsCandidateListFor(Unwrap(possible_paths), Unwrap(host.parent_path), cmd.program))
    /\ (IsSome(possible_paths) =>
          LET list == Unwrap(possible_paths)
              n == Len(Execs)
          IN  /\ n <= Len(list)
              /\ \A i \in 1..n : Execs[i].arg = list[i] /\ (i < n => Execs[i].failed)
              /\ (n > 0 /\ ~Execs[n].failed => child.image = Some(list[n]))
              /\ (IsSome(child.image) => n > 0 /\ ~Execs[n].failed))

\* PATH is a:b; execve of a/p failed with ENOENT, execve of b/p succeeded, and
\* b/p is the image that runs
C8_Witness ==
    /\ host.parent_path = Some(<<"a", ":", "b">>)
    /\ possible_paths = Some(<< <<"a", "/", "p">>, <<"b", "/", "p">> >>)
    /\ Len(Execs) = 2
    /\ Execs[1].failed /\ Execs[1].errno = ENOENT
    /\ ~Execs[2].failed
    /\ child.image = Some(<<"b", "/", "p">>)

\* C9: for a program containing "/", compute_possible_paths gives None whatever
\* PATH is in the override or the parent; the child makes at most one execve, on
\* the program string itself; the error of that execve is the error do_exec
\* returns, and the one spawn returns after reading the message.
C9_SeparatorBypassesSearch ==
    Contains(cmd.program, "/") =>
        /\ possible_paths = None
        /\ Len(Execs) <= 1
        /\ \A i \in 1..Len(Execs) : Execs[i].arg = cmd.program
        /\ (Execs # <<>> /\ Execs[1].failed =>
              /\ child.err = Some(OsError(Execs[1].errno))
              /\ child.pc \in {"report", "exit", "gone"}
              /\ (pc = "done" => result = Some(RetErr(OsError(Execs[1].errno)))))
        /\ (Execs # <<>> /\ ~Execs[1].failed => child.image = Some(cmd.program))

\* the program is d/p, the parent has PATH a and the override has PATH b; the
\* single execve of d/p failed with EACCES and spawn returned EACCES
C9_Witness ==
    /\ cmd.program = <<"d", "/", "p">>
    /\ host.parent_path = Some(<<"a">>)
    /\ IsSome(cmd.envp) /\ IsSome(FindPathVar(Unwrap(cmd.envp)))
    /\ PathsComputed
    /\ Len(Execs) = 1 /\ Execs[1].failed /\ Execs[1].errno = EACCES
    /\ Returned(RetErr(OsError(EACCES)))

\* C10: for a program without "/", once compute_possible_paths has returned:
\* with an override, the result is the candidate list of the value of the
\* override's PATH= item, and None when the override has no PATH= item, whatever
\* the parent's PATH; with no override, the result is the candidate list of the
\* parent's PATH, and None when the parent's PATH is unset.
C10_PathSourceSelection ==
    pc = "anon_pipe" /\ ~Contains(cmd.program, "/") =>
        IF IsSome(cmd.envp)
        THEN LET items == Unwrap(cmd.envp)
                 at == {i \in 1..Len(items) : StartsWith(items[i], PATH_EQ)}
             IN  IF at = {} THEN possible_paths = None
                 ELSE /\ \A i \in at : i = SetMin(at)
                      /\ IsSome(possible_paths)
                      /\ IsCandidateListFor(Unwrap(possible_paths),
                                            Drop(items[SetMin(at)], 5), cmd.program)
        ELSE IF IsSome(host.parent_path)
             THEN /\ IsSome(possible_paths)
                  /\ IsCandidateListFor(Unwrap(possible_paths), Unwrap(host.parent_path),
                                        cmd.program)
             ELSE possible_paths = None

\* the override is empty, the parent has PATH a, and the result is None
C10_Witness ==
    /\ pc = "anon_pipe"
    /\ cmd.program = <<"p">>
    /\ cmd.envp = Some(<<>>)
    /\ host.parent_path = Some(<<"a">>)
    /\ possible_paths = None

----------------------------------------------------------------------------
(* Claims about the failures of the candidate search (SpecSearch) *)

Last(s) == s[Len(s)]

\* the error kind of a failed execve of the child's log
ExecKind(e) == ErrorKind(OsError(e.errno))

\* this step is an execve of the child on a candidate, and it failed
ExecFailsInSearch ==
    /\ child.pc = "exec"
    /\ IsSome(possible_paths)
    /\ Len(hist'.child) = Len(hist.child) + 1
    /\ Last(hist'.child).call = "execve"
    /\ Last(hist'.child).failed

\* C11: a permission-denied failure of a candidate leaves the child in the
\* search, on the next candidate, with no error returned; an execve that
\* succeeds is the last one made (no later candidate is attempted), its
\* candidate is the image that runs, also when earlier candidates were denied,
\* and spawn then ends by returning Ok.
C11_DeniedDoesNotStopSearch ==
    /\ [](IsSome(possible_paths) =>
            \A i \in 1..Len(Execs) :
                ~Execs[i].failed =>
                    /\ i = Len(Execs)
                    /\ child.image = Some(Unwrap(possible_paths)[i])
                    /\ (Ended => pc = "done" /\ Unwrap(result).kind = "Ok"))
    /\ [][ExecFailsInSearch /\ ExecKind(Last(hist'.child)) = "PermissionDenied" =>
            /\ child'.pc = "exec"
            /\ child'.idx = child.idx + 1
            /\ child'.err = None]_vars

\* PATH is a:b; a/p was denied (EACCES), b/p was executed, and spawn returned Ok
C11_Witness ==
    /\ host.parent_path = Some(<<"a", ":", "b">>)
    /\ Len(Execs) = 2
    /\ Execs[1].failed /\ Execs[1].errno = EACCES
    /\ ~Execs[2].failed
    /\ child.image = Some(<<"b", "/", "p">>)
    /\ pc = "done" /\ Unwrap(result).kind = "Ok"

----------------------------------------------------------------------------
(* Claims about the entry checks and the choice of strategy (SpecEntry, Spec) *)

\* C13: with saw_nul set, spawn ends by returning the InvalidInput error of
\* lines 34-35 and exec by returning that of lines 116-117, and nothing else
\* has happened: no setup_io, no posix_spawnp, no pipe, no fork, no candidate
\* list, no step of do_exec and no execve.
C13_NulRejectedBeforeAnything ==
    cmd.saw_nul =>
        /\ hist = NoHist
        /\ child = NoChild
        /\ pipe = NoPipe
        /\ proc = NoProc
        /\ possible_paths = None
        /\ probe = None
        /\ p = NoHandle
        /\ \/ pc \in EntryPoints /\ result = None /\ ret = NoRet
           \/ pc = "done" /\ result = Some(RetErr(NulError)) /\ ret = NoRet
           \/ pc = "done" /\ result = None /\ ret = ExecRet(NulError)
        /\ ErrorKind(NulError) = "InvalidInput"

\* spawn of a Command with a NUL byte has returned the error, nothing was called
C13_Witness ==
    /\ cmd.saw_nul
    /\ Returned(RetErr(NulError))
    /\ hist.parent = <<>>
    /\ proc.state = "none"

\* the Command asks for nothing that posix_spawn cannot do
Eligible ==
    /\ ~cmd.cwd /\ ~cmd.gid /\ ~cmd.uid
    /\ ~cmd.env_saw_path
    /\ cmd.closures = 0

\* the target's posix_spawn reports ENOENT directly: macOS, or glibc known and
\* at least 2.24
ProbePasses(h) ==
    \/ h.platform = "macos"
    \/ /\ h.platform = "linux_gnu"
       /\ IsSome(h.glibc)
       /\ LET v == Unwrap(h.glibc) IN v[1] > 2 \/ (v[1] = 2 /\ v[2] >= 24)

FastPathOpen == Eligible /\ IsSome(probe) /\ ProbePasses(Unwrap(probe))

\* C14: posix_spawnp has been called only if the Command has no cwd, gid, uid,
\* PATH-affecting environment override or pre-exec callback and the probe
\* passed; when one of these fails, spawn's step at line 40 calls nothing,
\* creates no process and goes on to lines 44-48, and a fork is only ever made
\* after anon_pipe and without posix_spawnp having been called.
C14_FastPathOnlyWhenEligible ==
    /\ [](Contains(hist.parent, "posix_spawnp") \/ IsSome(hist.spawnp) => FastPathOpen)
    /\ [](Contains(hist.parent, "fork") =>
            /\ ~Contains(hist.parent, "posix_spawnp")
            /\ Contains(hist.parent, "anon_pipe")
            /\ ~FastPathOpen)
    /\ [][pc = "posix_spawn" /\ pc' # pc /\ ~(Eligible /\ IsSome(probe') /\ ProbePasses(Unwrap(probe'))) =>
            /\ pc' = "compute_paths"
            /\ hist' = hist
            /\ proc' = proc
            /\ result' = result]_vars

\* an eligible Command on glibc 2.23: posix_spawnp was not called and spawn forked
C14_Witness ==
    /\ Eligible
    /\ probe = Some([platform |-> "linux_gnu", glibc |-> Some(<<2, 23>>)])
    /\ hist.spawnp = None
    /\ Contains(hist.parent, "fork")

\* how many times spawn has called posix_spawnp
SpawnpCalls == Cardinality({i \in 1..Len(hist.parent) : hist.parent[i] = "posix_spawnp"})

\* C15: when the fast path is open posix_spawnp is called once.  When it
\* returned 0, spawn has returned Ok with Process { pid, status: None } for the
\* pid it reported; when it returned r # 0, spawn has returned Err of OS code r,
\* no handle was made and no process exists.  In both cases spawn never forks,
\* so a spawn call creates at most one child.
C15_FastPathResult ==
    /\ SpawnpCalls <= 1
    /\ (FastPathOpen => SpawnpCalls = 1)
    /\ (SpawnpCalls = 1 => IsSome(hist.spawnp) /\ ~Contains(hist.parent, "fork") /\ pc = "done")
    /\ (hist.spawnp = Some(0) =>
          /\ IsSome(hist.os_pid)
          /\ result = Some(RetOk([pid |-> Unwrap(hist.os_pid), status |-> None]))
          /\ proc.state = "running")
    /\ (IsSome(hist.spawnp) /\ hist.spawnp # Some(0) =>
          /\ result = Some(RetErr(OsError(Unwrap(hist.spawnp))))
          /\ p = NoHandle
          /\ proc.state = "none"
          /\ child = NoChild)

\* posix_spawnp returned EACCES: spawn returned Err(EACCES), no process, no fork
C15_Witness ==
    /\ hist.spawnp = Some(EACCES)
    /\ Returned(RetErr(OsError(EACCES)))
    /\ hist.parent = <<"setup_io", "posix_spawnp">>
    /\ proc.state = "none"

----------------------------------------------------------------------------
(* Claims about the end of the candidate search (SpecSearch) *)

\* the child has left the exec step of do_exec with an error
DoExecReturned == child.pc \in {"report", "exit", "gone", "returned"}

\* the indices of the execve calls that failed with permission-denied
Denied == {i \in 1..Len(Execs) : Execs[i].failed /\ ExecKind(Execs[i]) = "PermissionDenied"}

\* every candidate was tried and each failed with permission-denied, not-found
\* or timed-out
SearchExhausted ==
    /\ IsSome(possible_paths)
    /\ Len(Execs) = Len(Unwrap(possible_paths))
    /\ \A i \in 1..Len(Execs) :
          Execs[i].failed /\ ExecKind(Execs[i]) \in {"PermissionDenied", "NotFound", "TimedOut"}

\* C16: when every candidate failed with permission-denied, not-found or
\* timed-out, do_exec returns the error of the first candidate that was denied
\* if one was, and otherwise the OS error ENOENT.
C16_ExhaustedSearchError ==
    SearchExhausted /\ DoExecReturned =>
        child.err = IF Denied # {} THEN Some(OsError(Execs[SetMin(Denied)].errno))
                    ELSE Some(OsError(ENOENT))

\* PATH is a:b; a/p failed with EPERM, b/p with EACCES, and do_exec returned EPERM
C16_Witness ==
    /\ host.parent_path = Some(<<"a", ":", "b">>)
    /\ SearchExhausted
    /\ Execs[1].errno = EPERM /\ Execs[2].errno = EACCES
    /\ child.err = Some(OsError(EPERM))
    /\ Returned(RetErr(OsError(EPERM)))

\* C17: an execve failure on a candidate that is neither permission-denied nor
\* not-found nor timed-out ends the search in that step: do_exec returns that
\* error, also when an earlier candidate was denied, and no execve follows it.
C17_FatalExecError ==
    /\ [](IsSome(possible_paths) =>
            \A i \in 1..Len(Execs) :
                Execs[i].failed /\ ExecKind(Execs[i]) \notin {"PermissionDenied", "NotFound", "TimedOut"} =>
                    /\ i = Len(Execs)
                    /\ DoExecReturned
                    /\ child.err = Some(OsError(Execs[i].errno)))
    /\ [][ExecFailsInSearch
            /\ ExecKind(Last(hist'.child)) \notin {"PermissionDenied", "NotFound", "TimedOut"} =>
            /\ child'.pc = "report"
            /\ child'.err = Some(OsError(Last(hist'.child).errno))]_vars

\* PATH is a:: (candidates a/p, /p, /p); a/p was denied, /p failed with ENOEXEC,
\* the third candidate was not tried and spawn returned ENOEXEC
C17_Witness ==
    /\ host.parent_path = Some(<<"a", ":", ":">>)
    /\ IsSome(possible_paths) /\ Len(Unwrap(possible_paths)) = 3
    /\ Len(Execs) = 2
    /\ Execs[1].failed /\ Execs[1].errno = EACCES
    /\ Execs[2].failed /\ Execs[2].errno = ENOEXEC
    /\ child.pending = Some(OsError(EACCES))
    /\ Returned(RetErr(OsError(ENOEXEC)))

----------------------------------------------------------------------------
(* Claims about the steps of do_exec before the exec (Spec) *)

\* the place of a call of the child's log in the order of lines 207-318
CallRank(e) ==
    IF e.call = "dup2"
    THEN (IF e.arg = "stdin" THEN 1 ELSE IF e.arg = "stdout" THEN 2 ELSE 3)
    ELSE IF e.call = "setgid" THEN 4
    ELSE IF e.call = "setgroups" THEN 5
    ELSE IF e.call = "setuid" THEN 6
    ELSE IF e.call = "chdir" THEN 7
    ELSE IF e.call = "sigemptyset" THEN 8
    ELSE IF e.call = "pthread_sigmask" THEN 9
    ELSE IF e.call = "signal" THEN 10
    ELSE IF e.call = "closure" THEN 11
    ELSE IF e.call = "execve" THEN 12
    ELSE IF e.call = "write" THEN 13
    ELSE 14

\* the child has made the call, and it succeeded
Did(call) == \E i \in 1..Len(hist.child) : hist.child[i].call = call /\ ~hist.child[i].failed

\* C18: the calls the child makes come in the order dup2 for stdin, stdout,
\* stderr; setgid; setgroups and setuid (both only with a uid, setuid right
\* after setgroups whether setgroups failed or not); chdir; sigemptyset,
\* pthread_sigmask, signal; the callbacks in registration order (the first is
\* number 1, each next one the number after); execve.  Each is made at most once
\* (but the callbacks and the execve attempts), and when an execve is made every
\* configured step before it has been made and succeeded.
C18_StepOrder ==
    LET log == hist.child
    IN  /\ \A i \in 1..(Len(log) - 1) :
              /\ CallRank(log[i]) <= CallRank(log[i + 1])
              /\ (CallRank(log[i]) = CallRank(log[i + 1]) =>
                    log[i].call \in {"closure", "execve"})
        /\ \A i \in 1..Len(log) :
              /\ (log[i].call = "closure" =>
                    log[i].arg = IF i > 1 /\ log[i - 1].call = "closure"
                                 THEN <<log[i - 1].arg[1] + 1>> ELSE <<1>>)
              /\ (log[i].call = "setgroups" =>
                    cmd.uid /\ i < Len(log) /\ log[i + 1].call = "setuid")
              /\ (log[i].call = "setuid" => i > 1 /\ log[i - 1].call = "setgroups")
              /\ (log[i].call = "setgid" => cmd.gid)
              /\ (log[i].call = "chdir" => cmd.cwd)
              /\ (log[i].call = "dup2" => log[i].arg \in cmd.stdio)
        /\ (Execs # <<>> =>
              /\ \A s \in cmd.stdio :
                    \E i \in 1..Len(log) : log[i].call = "dup2" /\ log[i].arg = s /\ ~log[i].failed
              /\ (cmd.gid => Did("setgid"))
              /\ (cmd.uid => Did("setuid"))
              /\ (cmd.cwd => Did("chdir"))
              /\ Did("sigemptyset") /\ Did("pthread_sigmask") /\ Did("signal")
              /\ Cardinality({k \in 1..Len(log) : log[k].call = "closure" /\ ~log[k].failed})
                    = cmd.closures)

\* a Command with three descriptors, gid, uid, cwd and two callbacks: setgroups
\* failed, and the child went on through setuid and every later step to execve
C18_Witness ==
    /\ cmd.stdio = Streams /\ cmd.gid /\ cmd.uid /\ cmd.cwd /\ cmd.closures = 2
    /\ \E i \in 1..Len(hist.child) : hist.child[i].call = "setgroups" /\ hist.child[i].failed
    /\ Did("setuid")
    /\ Len(Execs) = 1
    /\ Len(hist.child) = 13

\* the calls of do_exec that t! guards
GuardedCalls == {"dup2", "setgid", "setuid", "chdir", "sigemptyset", "pthread_sigmask",
                 "signal", "closure"}

\* the error the OS gives for a failed call of the child in this model
StepErrors(call) ==
    IF call = "dup2" THEN {OsError(EBADF)}
    ELSE IF call \in {"setgid", "setuid"} THEN {OsError(EPERM)}
    ELSE IF call = "chdir" THEN {OsError(ENOENT)}
    ELSE IF call = "closure" THEN {OsError(EIO), CustomError("Other", "pre-exec")}
    ELSE {OsError(EINVAL)}

\* C19: when a dup2, setgid, setuid, chdir, signal-reset call or a callback
\* fails, do_exec has returned that call's error; the child makes no later
\* step, runs no later callback and makes no execve (all that follows in its
\* log is the write of the message and _exit), and the step that failed leads
\* straight to the return.
C19_AbortAtFirstFailure ==
    /\ [](\A i \in 1..Len(hist.child) :
            hist.child[i].failed /\ hist.child[i].call \in GuardedCalls =>
                /\ DoExecReturned
                /\ IsSome(child.err) /\ Unwrap(child.err) \in StepErrors(hist.child[i].call)
                /\ Execs = <<>>
                /\ \A j \in (i + 1)..Len(hist.child) : hist.child[j].call \in {"write", "_exit"}
                /\ (pc = "done" => Unwrap(result).kind = "Err"))
    /\ [][Len(hist'.child) > Len(hist.child) /\ Last(hist'.child).failed
            /\ Last(hist'.child).call \in GuardedCalls =>
            /\ child'.pc = "report"
            /\ IsSome(child'.err) /\ Unwrap(child'.err) \in StepErrors(Last(hist'.child).call)]_vars

\* chdir failed in a child with two callbacks: no callback ran, no execve was
\* made, and spawn returned Err(ENOENT)
C19_Witness ==
    /\ cmd.cwd /\ cmd.closures = 2
    /\ \E i \in 1..Len(hist.child) : hist.child[i].call = "chdir" /\ hist.child[i].failed
    /\ ~\E i \in 1..Len(hist.child) : hist.child[i].call \in {"closure", "execve"}
    /\ Returned(RetErr(OsError(ENOENT)))

----------------------------------------------------------------------------
(* Claims about a malformed message on the error pipe (SpecPipe) *)

\* this step is a read of the parent that returned (a byte count or 0)
ReadReturns == pc \in {"read", "read_retry"} /\ hist'.parent = Append(hist.parent, "read")

\* C20: a read that returns 1 to 7 bytes leads, through p.wait(), to a panic and
\* to nothing else; a read that returns 8 bytes whose last 4 are not the marker
\* is a panic at once; a panic is final and is never an Ok or Err result; and
\* an Err that spawn returns after a read was decoded from 8 bytes that end
\* with the marker.
C20_MalformedMessagePanics ==
    /\ [][ReadReturns /\ Len(pipe.buf) \in 1..7 => pc' = "short" /\ result' = None]_vars
    /\ [][pc = "short" /\ pc' # pc =>
            pc' = "panic" /\ IsSome(result') /\ Unwrap(result').kind = "Panic"]_vars
    /\ [][ReadReturns /\ Len(pipe.buf) >= 8 /\ SubSeq(pipe.buf, 5, 8) # CLOEXEC_MSG_FOOTER =>
            pc' = "panic" /\ IsSome(result') /\ Unwrap(result').kind = "Panic"]_vars
    /\ [][pc = "panic" => pc' = "panic" /\ result' = result]_vars
    /\ [](pc = "panic" => IsSome(result) /\ Unwrap(result).kind = "Panic")
    /\ [](pc = "done" => IsSome(result) /\ Unwrap(result).kind \in {"Ok", "Err"})
    /\ [](pc = "done" /\ Unwrap(result).kind = "Err" /\ Contains(hist.parent, "read") =>
            /\ SubSeq(bytes, 5, 8) = CLOEXEC_MSG_FOOTER
            /\ hist.parent[Len(hist.parent)] = "wait")

\* the parent read 3 bytes, waited for the child and panicked on the short read
C20_Witness ==
    /\ pc = "panic"
    /\ result = Some(Panic("short read on the CLOEXEC pipe"))
    /\ SubSeq(bytes, 1, 4) = <<0, 0, 0, 0>>
    /\ hist.parent[Len(hist.parent)] = "wait"
    /\ proc.state = "reaped"

----------------------------------------------------------------------------
(* Claims about the read loop and the two ends of the error pipe *)

\* the number of reads of the parent that returned
ReadsReturned == Cardinality({i \in 1..Len(hist.parent) : hist.parent[i] = "read"})

\* C21: an interrupted read decides nothing. The step that takes the parent to
\* the retry changes neither the result, the handle, the buffer, the pipe nor
\* the child, and logs no call (no wait, no return, no panic); while the parent
\* is retrying, no read has returned, no wait was made and the buffer is still
\* zeroed; the read that returns is the only one, and what it does depends on
\* the pipe alone, the same after any number of interruptions as after none:
\* Ok with the handle at end of stream, the wait after 8 bytes with the marker
\* or after 1 to 7 bytes, a panic after 8 bytes without the marker.
C21_InterruptedReadDecidesNothing ==
    /\ [][pc = "read" /\ pc' = "read_retry" =>
            /\ pipe.buf = <<>> /\ pipe.wr # {}
            /\ UNCHANGED <<result, p, bytes, pipe, child, proc, hist>>]_vars
    /\ [][pc = "read_retry" /\ pc' = "read_retry" =>
            UNCHANGED <<result, p, bytes>> /\ hist'.parent = hist.parent]_vars
    /\ [](pc = "read_retry" =>
            /\ result = None /\ p.status = None
            /\ bytes = <<0, 0, 0, 0, 0, 0, 0, 0>>
            /\ ReadsReturned = 0 /\ hist.waitpids = 0
            /\ hist.parent[Len(hist.parent)] = "drop_output")
    /\ [](ReadsReturned <= 1)
    /\ [][(pc \in {"read", "read_retry"}) /\ pc' \notin {"read", "read_retry"} =>
            ReadReturns \/ (pc' = "read_err" /\ UNCHANGED <<result, p, bytes, pipe>>)]_vars
    /\ [][ReadReturns =>
            \/ /\ pipe.buf = <<>> /\ pipe.wr = {}
               /\ pc' = "done" /\ result' = Some(RetOk(p)) /\ hist'.waitpids = 0
            \/ /\ Len(pipe.buf) \in 1..7
               /\ pc' = "short" /\ result' = None
            \/ /\ Len(pipe.buf) >= 8 /\ SubSeq(pipe.buf, 5, 8) = CLOEXEC_MSG_FOOTER
               /\ pc' = "got8" /\ result' = None /\ bytes' = SubSeq(pipe.buf, 1, 8)
            \/ /\ Len(pipe.buf) >= 8 /\ SubSeq(pipe.buf, 5, 8) # CLOEXEC_MSG_FOOTER
               /\ pc' = "panic"]_vars

\* a read was interrupted while the pipe was empty; the child has written its
\* message since, the parent has neither waited nor returned, and the next
\* read finds the 8 bytes
C21_Witness ==
    /\ pc = "read_retry"
    /\ Len(pipe.buf) = 8
    /\ child.pc \in {"exit", "gone"}
    /\ result = None
    /\ hist.waitpids = 0

\* the parent is in the read loop
ParentReading == pc \in {"read", "read_retry"}

\* the child is inside do_exec or reporting its error
InChildEntry == child.pc \notin {"none", "drop_input", "image", "gone"}

\* C22 as stated: at every moment of the parent's read loop the read end is
\* held by the parent alone and the write end by the child alone.
C22_OneReaderOneWriterThroughout ==
    ParentReading => pipe.rd = {"parent"} /\ pipe.wr = {"child"}

\* C22, amended: the parent has closed its write end before its first read and
\* the child its read end before do_exec runs, so while the parent reads no
\* process but the child holds a write end and the parent holds the read end;
\* there is exactly one holder of each end while the child runs do_exec or
\* reports, the child still holds a read end between fork and its drop(input),
\* and no write end is left once the child has replaced its image or exited.
\* With both processes scheduled, a parent that has forked always comes to the
\* end of spawn (a return or a panic): it does not stay in the read loop.
C22_PipeEndsAndProgress ==
    /\ [](ParentReading => "parent" \notin pipe.wr /\ pipe.wr \subseteq {"child"}
                           /\ "parent" \in pipe.rd /\ pipe.rd \subseteq {"parent", "child"})
    /\ [](ReadsReturned > 0 => "parent" \notin pipe.wr)
    /\ [](child.pc \notin {"none", "drop_input"} => "child" \notin pipe.rd)
    /\ [](ParentReading /\ InChildEntry => pipe.rd = {"parent"} /\ pipe.wr = {"child"})
    /\ [](ParentReading /\ child.pc = "drop_input" => "child" \in pipe.rd /\ pipe.wr = {"child"})
    /\ [](ParentReading /\ child.pc \in {"image", "gone"} => pipe.wr = {})
    /\ (pc = "drop_output" ~> Ended)
    /\ (ParentReading ~> Ended)

\* the parent was interrupted or blocked in its read while the child ran, the
\* child replaced its image, and the read returned 0: spawn is over with Ok
C22_Witness ==
    /\ pc = "done"
    /\ ReadsReturned = 1
    /\ child.pc = "image"
    /\ pipe.wr = {} /\ pipe.rd = {"parent"}
    /\ IsSome(result) /\ Unwrap(result).kind = "Ok"

----------------------------------------------------------------------------
(* Claims about how the forked child ends *)

\* the calls of the child's log named call
ChildCalls(call) == {i \in 1..Len(hist.child) : hist.child[i].call = call}

\* this step is a step of the forked child
ChildStep == child.pc # "none" /\ (child' # child \/ hist'.child # hist.child)

----------------------------------------------------------------------------
(* Claims about the child of a spawn that fails after fork (SpecPipe) *)

\* fork succeeded and spawn ended without a handle for the caller
EndedWithoutHandle == IsSome(hist.os_pid) /\ Ended /\ ~CallerHasHandle

\* the parent's last call was p.wait(), which collected the child's status
ChildWaitedFor ==
    /\ Last(hist.parent) = "wait"
    /\ hist.waitpids >= 1 /\ hist.reaps = 1
    /\ proc.state = "reaped"
    /\ IsSome(p.status)

MarkerPanic == Panic("Validation on the CLOEXEC pipe failed")

\* C24 as stated: whenever spawn ends after a successful fork without a handle
\* (an error decoded from the message, or a panic for a short read, a failed
\* read or a wrong marker), the parent has waited for the child.
C24_WaitedBeforeEveryFailure == EndedWithoutHandle => ChildWaitedFor

\* C24, amended: when spawn ends after a successful fork with a decoded error
\* or with the panic for a short read or for a failed read, the parent's last
\* call was p.wait() and the child's status is collected; when it ends with the
\* panic for a wrong marker, the parent's last call was the read, it made no
\* waitpid call, and the child is still running or an uncollected zombie.
C24_WaitedUnlessMarkerMismatch ==
    /\ EndedWithoutHandle /\ result # Some(MarkerPanic) =>
          /\ ChildWaitedFor
          /\ \/ Unwrap(result).kind = "Err"
             \/ result = Some(Panic("short read on the CLOEXEC pipe"))
             \/ result = Some(Panic("the CLOEXEC pipe failed"))
    /\ EndedWithoutHandle /\ result = Some(MarkerPanic) =>
          /\ Last(hist.parent) = "read"
          /\ hist.waitpids = 0 /\ hist.reaps = 0
          /\ proc.state \in {"running", "zombie"}
          /\ p.status = None

\* the read failed, the parent waited for the child, which had exited with
\* status 1 after reporting, and then panicked
C24_Witness ==
    /\ pc = "panic"
    /\ result = Some(Panic("the CLOEXEC pipe failed"))
    /\ hist.parent[Len(hist.parent) - 1] = "read_failed"
    /\ ChildWaitedFor
    /\ p.status = Some(ExitStatus(256))

----------------------------------------------------------------------------
(* Claims about an error of do_exec that has no OS code *)

\* do_exec returned an error without an OS code and the child has written its
\* message
ReportedCustomError ==
    /\ child.pc \in {"exit", "gone"}
    /\ ~IsSome(raw_os_error(Unwrap(child.err)))

\* the 8 bytes of the message, before or after the parent has read them
MessageBytes == IF pipe.buf # <<>> THEN pipe.buf ELSE bytes

\* C25: an error of do_exec without an OS code comes from a pre-exec callback;
\* the message the child writes for it is 00 00 00 16 (EINVAL, big-endian)
\* followed by the marker, and the error spawn then returns is the OS error
\* EINVAL, which is not the callback's error.
C25_CustomErrorBecomesEinval ==
    /\ IsSome(child.err) /\ ~IsSome(raw_os_error(Unwrap(child.err))) =>
          /\ Last(SelectSeq(hist.child, LAMBDA e : e.call # "write" /\ e.call # "_exit")).call
                = "closure"
          /\ Unwrap(child.err).repr = "Custom"
    /\ ReportedCustomError =>
          /\ MessageBytes = <<0, 0, 0, EINVAL>> \o CLOEXEC_MSG_FOOTER
          /\ pc = "done" =>
                /\ result = Some(RetErr(OsError(EINVAL)))
                /\ result # Some(RetErr(Unwrap(child.err)))
                /\ raw_os_error(Unwrap(result).err) = Some(EINVAL)

\* the first of two callbacks returned an error of its own making, and spawn
\* returned the OS error EINVAL
C25_Witness ==
    /\ cmd.closures = 2
    /\ child.err = Some(CustomError("Other", "pre-exec"))
    /\ Last(hist.child).call = "_exit"
    /\ Returned(RetErr(OsError(EINVAL)))

----------------------------------------------------------------------------
(* Claims about empty segments of PATH (SpecPaths) *)

\* the PATH value the candidates are built from, when a list was produced
GoverningPath ==
    IF IsSome(cmd.envp) THEN Drop(Unwrap(FindPathVar(Unwrap(cmd.envp))), 5)
    ELSE Unwrap(host.parent_path)

\* the positions of the separators of v, with 0 and Len(v) + 1 as the two ends
Cuts(v) == {0, Len(v) + 1} \cup {i \in 1..Len(v) : v[i] = ":"}

\* the j-th of Cuts(v) in increasing order
CutAt(v, j) == CHOOSE k \in Cuts(v) : Cardinality({i \in Cuts(v) : i < k}) = j - 1

\* the j-th segment of v: what lies between two neighbouring cuts
SegmentAt(v, j) == SubSeq(v, CutAt(v, j) + 1, CutAt(v, j + 1) - 1)

\* C26: a candidate list that was produced has one candidate per segment of
\* the governing PATH value, that is the number of `:` plus one and so at
\* least one; the candidate of an empty segment (an empty value, a leading or
\* trailing `:`, two `:` in a row) is `/` followed by the program, and neither
\* the bare program nor `./` followed by the program; every other candidate is
\* its segment, `/`, the program.
C26_EmptySegmentIsRoot ==
    pc = "anon_pipe" /\ IsSome(possible_paths) =>
        LET v == GoverningPath
            list == Unwrap(possible_paths)
            colons == Cardinality({i \in 1..Len(v) : v[i] = ":"})
        IN  /\ Len(list) = colons + 1
            /\ Len(list) >= 1
            /\ \A j \in 1..Len(list) :
                  /\ list[j] = SegmentAt(v, j) \o <<"/">> \o cmd.program
                  /\ SegmentAt(v, j) = <<>> =>
                        /\ list[j] = <<"/">> \o cmd.program
                        /\ list[j] # cmd.program
                        /\ list[j] # <<".", "/">> \o cmd.program
            /\ v = <<>> => list = << <<"/">> \o cmd.program >>
            /\ (v # <<>> /\ v[1] = ":") => list[1] = <<"/">> \o cmd.program
            /\ (v # <<>> /\ v[Len(v)] = ":") => Last(list) = <<"/">> \o cmd.program
            /\ \A k \in 1..(Len(v) - 1) :
                  v[k] = ":" /\ v[k + 1] = ":" =>
                     list[Cardinality({i \in 1..k : v[i] = ":"}) + 1] = <<"/">> \o cmd.program

\* the inherited PATH is `:a:`: the candidates are /p, a/p and /p
C26_Witness ==
    /\ pc = "anon_pipe"
    /\ cmd.envp = None
    /\ cmd.program = <<"p">>
    /\ host.parent_path = Some(<<":", "a", ":">>)
    /\ possible_paths = Some(<< <<"/", "p">>, <<"a", "/", "p">>, <<"/", "p">> >>)

====
